---- MODULE Spec2Model ----
(***************************************************************************)
(* A model of the netlink engine of wipi-web-api: the two kernel managers  *)
(* (RouteManager, WiphyManager), the NetlinkService merge and lookup, the  *)
(* set-then-confirm HTTP handlers and the router-client resolver.          *)
(*                                                                         *)
(* Eight specifications share the variables:                               *)
(*   SpecMerge   the merge of NetlinkService::get_interfaces as a pure     *)
(*               function of the three lists the managers return;          *)
(*   Spec        the handlers of /net/ifstate and /net/ifmode against a    *)
(*               kernel that other actors change;                          *)
(*   SpecCall    direct calls of the managers' mutators;                   *)
(*   SpecClient  RouterClient::from_request_parts as a function of the     *)
(*               request and the neighbour table;                          *)
(*   SpecEnum    the managers' enumerations as functions of the message    *)
(*               stream the kernel sends;                                  *)
(*   SpecHttp    the HTTP entry points: extractors, session validation and *)
(*               the handlers' bodies;                                     *)
(*   SpecLife    construction and discarding of the managers and their     *)
(*               background driver tasks;                                  *)
(*   SpecAuth    AuthService's session operations called from several      *)
(*               threads, with the lock of the session record.             *)
(***************************************************************************)
EXTENDS Integers, Sequences, FiniteSets, TLC

(***************************************************************************)
(* Bounds of the model.                                                    *)
(***************************************************************************)
MaxDevs == 1
MaxWifs == 2
MaxRifs == 2

(***************************************************************************)
(* Kernel enumerations, by their wire codes.                               *)
(***************************************************************************)
\* rtnetlink LinkLayerType (ARPHRD_*), as matched in RouteManager::get_interfaces
LltNetrom == 0
LltEther == 1
LltLoopback == 772
LltIeee80211 == 801
LltIeee80211Prism == 802
LltIeee80211Radiotap == 803

\* rtnetlink link State (IF_OPER_*), as matched in From<State> for OperState
StateUnknown == 0
StateDown == 2
StateUp == 6

\* rtnetlink LinkFlags::Up (IFF_UP), the bit NetlinkInterface::state tests
IffUp == 1
\* a flag bit other than IFF_UP (the one next to it)
IffOther == 2 * IffUp

\* nl80211 interface types (NL80211_IFTYPE_*), as matched in the From impls
IftAdhoc == 1
IftStation == 2
IftAp == 3
IftMonitor == 6

(***************************************************************************)
(* Values of the program's enums.  Every variant is a record of the same   *)
(* shape, so that two values of one enum can always be compared.           *)
(***************************************************************************)
\* RouteInterfaceKind
KindEthernet == [tag |-> "Ethernet", code |-> 0]
KindWireless == [tag |-> "Wireless", code |-> 0]
KindLoopback == [tag |-> "Loopback", code |-> 0]
KindUnknown(c) == [tag |-> "Unknown", code |-> c]

\* OperState
OperUnknown == [tag |-> "Unknown", code |-> 0]
OperDown == [tag |-> "Down", code |-> 0]
OperUp == [tag |-> "Up", code |-> 0]
OperOther(c) == [tag |-> "Other", code |-> c]

\* LinkState, what NetlinkInterface::state returns
LinkStateDown == [tag |-> "Down", code |-> 0]
LinkStateUp == [tag |-> "Up", code |-> 0]

\* NetlinkInterfaceMode
ModeStation == [tag |-> "Station", code |-> 0]
ModeMonitor == [tag |-> "Monitor", code |-> 0]
ModeAccessPoint == [tag |-> "AccessPoint", code |-> 0]
ModeOtherWireless(c) == [tag |-> "OtherWireless", code |-> c]

\* Option<NetlinkInterfaceModeStatus>
NoModeStatus == [some |-> FALSE, active |-> ModeStation, supported |-> <<>>]
SomeModeStatus(a, s) == [some |-> TRUE, active |-> a, supported |-> s]

\* Result<T>: ok with a value, or an error of some kind
Ok(v) == [ok |-> TRUE, err |-> "", v |-> v]
Err(e, dflt) == [ok |-> FALSE, err |-> e, v |-> dflt]

(***************************************************************************)
(* Conversions.                                                            *)
(***************************************************************************)
\* impl From<State> for OperState
OperStateFromState(s) ==
    IF s = StateDown THEN OperDown
    ELSE IF s = StateUp THEN OperUp
    ELSE OperOther(s % 256)

\* the match on link.header.link_layer_type in RouteManager::get_interfaces
KindOfLinkLayerType(llt) ==
    IF llt = LltEther THEN KindEthernet
    ELSE IF llt = LltLoopback THEN KindLoopback
    ELSE IF llt \in {LltIeee80211, LltIeee80211Radiotap, LltIeee80211Prism}
         THEN KindWireless
    ELSE KindUnknown(llt % 65536)

\* impl From<Nl80211InterfaceType> for NetlinkInterfaceMode
ModeFromInterfaceType(t) ==
    IF t = IftStation THEN ModeStation
    ELSE IF t = IftMonitor THEN ModeMonitor
    ELSE IF t = IftAp THEN ModeAccessPoint
    ELSE ModeOtherWireless(t)

\* impl From<Nl80211IfMode> for NetlinkInterfaceMode
ModeFromIfMode(t) ==
    IF t = IftStation THEN ModeStation
    ELSE IF t = IftMonitor THEN ModeMonitor
    ELSE IF t = IftAp THEN ModeAccessPoint
    ELSE ModeOtherWireless(t % 65536)

\* impl TryInto<Nl80211InterfaceType> for NetlinkInterfaceMode: every arm is
\* wrapped in Ok, OtherWireless(other) becomes Nl80211InterfaceType::Other(other)
InterfaceTypeTryFromMode(m) ==
    IF m.tag = "Station" THEN Ok(IftStation)
    ELSE IF m.tag = "Monitor" THEN Ok(IftMonitor)
    ELSE IF m.tag = "AccessPoint" THEN Ok(IftAp)
    ELSE Ok(m.code)

(***************************************************************************)
(* HashMap, as a sequence of <<key, value>> entries with distinct keys.    *)
(* The iteration order of a HashMap is unspecified (RandomState): the      *)
(* position of an entry in the sequence means nothing, and whatever        *)
(* iterates a map (into_values) may meet the entries in any order.         *)
(***************************************************************************)
RECURSIVE MapIndex(_, _, _)
MapIndex(m, k, i) ==
    IF i > Len(m) THEN 0
    ELSE IF m[i][1] = k THEN i
    ELSE MapIndex(m, k, i + 1)

MapHas(m, k) == MapIndex(m, k, 1) # 0
MapGet(m, k) == m[MapIndex(m, k, 1)][2]

\* a container that keeps both entries of a repeated key
MapInsertPush(m, k, v) == Append(m, <<k, v>>)

\* HashMap::insert: the value of an existing key is replaced
MapInsert(m, k, v) ==
    IF MapHas(m, k)
    THEN [m EXCEPT ![MapIndex(m, k, 1)] = <<k, v>>]
    ELSE Append(m, <<k, v>>)

\* HashMap::remove
MapRemove(m, k) ==
    LET i == MapIndex(m, k, 1)
    IN  IF i = 0 THEN m
        ELSE SubSeq(m, 1, i - 1) \o SubSeq(m, i + 1, Len(m))

\* the orders in which n entries can be met
Orders(n) == IF n = 0 THEN {<<>>} ELSE Permutations(1..n)

\* HashMap::into_values().collect(): the Vecs the call can return, one for
\* each order of the entries
MapValues(m) == {[i \in 1..Len(m) |-> m[p[i]][2]] : p \in Orders(Len(m))}

(***************************************************************************)
(* NetlinkService::get_interfaces: the merge of the managers' lists.       *)
(*   devs  Vec<WiphyDevice>      [phy_index, phy_name, supported_iftypes]  *)
(*   wifs  Vec<WiphyInterface>   [index, phy_index, name, iftype]          *)
(*   rifs  Vec<RouteInterface>   [index, name, kind, link_flags]           *)
(* The result is one of the Vecs of NetlinkInterface                       *)
(*   [index, name, kind, link_flags, mode_status]                          *)
(* that into_values().collect() can return.  The RouteInterface this       *)
(* function reads is the one `impl Into<RouteInterface> for                *)
(* NetlinkInterface` builds: index, name, kind and link_flags.  The merge  *)
(* copies link_flags, and an entry of the wireless pass holds link_flags 0 *)
(* until a route record complements it.                                    *)
(***************************************************************************)
\* link_flags & LinkFlags::Up.bits() == LinkFlags::Up.bits()
HasFlag(flags, bit) == (flags \div bit) % 2 = 1

\* NetlinkInterface::state
State(interface) ==
    IF HasFlag(interface.link_flags, IffUp) THEN LinkStateUp ELSE LinkStateDown

\* the map phy_index -> supported modes (mod.rs, collect::<HashMap<_, _>>())
RECURSIVE WiphyDeviceModes(_, _)
WiphyDeviceModes(devs, m) ==
    IF devs = <<>> THEN m
    ELSE LET x == Head(devs)
             modes == [i \in 1..Len(x.supported_iftypes) |->
                          ModeFromIfMode(x.supported_iftypes[i])]
         IN  WiphyDeviceModes(Tail(devs), MapInsert(m, x.phy_index, modes))

\* one iteration of `for iface in wiphy_interfaces`
WirelessPassStep(interfaces, modes, iface) ==
    LET supported_modes ==
            IF MapHas(modes, iface.phy_index)
            THEN MapGet(modes, iface.phy_index)
            ELSE <<>>
        active_mode == ModeFromInterfaceType(iface.iftype)
    IN  MapInsert(interfaces, iface.name,
                  [index |-> iface.index,
                   name |-> iface.name,
                   kind |-> KindWireless,
                   link_flags |-> 0,
                   mode_status |-> SomeModeStatus(active_mode, supported_modes)])

RECURSIVE WirelessPass(_, _, _)
WirelessPass(interfaces, modes, wifs) ==
    IF wifs = <<>> THEN interfaces
    ELSE WirelessPass(WirelessPassStep(interfaces, modes, Head(wifs)),
                      modes, Tail(wifs))

\* a generic-link pass that inserts every record, without the get_mut branch
RoutePassStepOverwrite(interfaces, iface) ==
    MapInsert(interfaces, iface.name,
              [index |-> iface.index,
               name |-> iface.name,
               kind |-> iface.kind,
               link_flags |-> iface.link_flags,
               mode_status |-> NoModeStatus])

\* a generic-link pass that complements the entries of the wireless pass and
\* inserts none of its own
RoutePassStepNoInsert(interfaces, iface) ==
    IF MapHas(interfaces, iface.name)
    THEN LET i == MapIndex(interfaces, iface.name, 1)
         IN  [interfaces EXCEPT ![i][2].link_flags = iface.link_flags]
    ELSE interfaces

\* a generic-link pass that leaves an entry already in the map as it is
RoutePassStepSkip(interfaces, iface) ==
    IF MapHas(interfaces, iface.name)
    THEN interfaces
    ELSE MapInsert(interfaces, iface.name,
                   [index |-> iface.index,
                    name |-> iface.name,
                    kind |-> iface.kind,
                    link_flags |-> iface.link_flags,
                    mode_status |-> NoModeStatus])

\* one iteration of `for iface in route_interfaces`
RoutePassStep(interfaces, iface) ==
    IF MapHas(interfaces, iface.name)
    THEN LET i == MapIndex(interfaces, iface.name, 1)
         IN  [interfaces EXCEPT ![i][2].link_flags = iface.link_flags]
    ELSE MapInsert(interfaces, iface.name,
                   [index |-> iface.index,
                    name |-> iface.name,
                    kind |-> iface.kind,
                    link_flags |-> iface.link_flags,
                    mode_status |-> NoModeStatus])

RECURSIVE RoutePass(_, _)
RoutePass(interfaces, rifs) ==
    IF rifs = <<>> THEN interfaces
    ELSE RoutePass(RoutePassStep(interfaces, Head(rifs)), Tail(rifs))

\* the map after the wireless pass
WirelessMap(devs, wifs) ==
    WirelessPass(<<>>, WiphyDeviceModes(devs, <<>>), wifs)

\* the whole merge, given what the three manager calls returned: the Vecs
\* get_interfaces can return
MergeInterfaces(devs, wifs, rifs) ==
    MapValues(RoutePass(WirelessMap(devs, wifs), rifs))

(***************************************************************************)
(* NetlinkService::find_interface_by_name on a merged list:                *)
(* into_iter().find(|x| x.name == name).ok_or(anyhow!(...)).               *)
(***************************************************************************)
NoInterface ==
    [index |-> 0, name |-> "", kind |-> KindUnknown(0),
     link_flags |-> 0, mode_status |-> NoModeStatus]

RECURSIVE FindPos(_, _, _)
FindPos(ifs, name, i) ==
    IF i > Len(ifs) THEN 0
    ELSE IF ifs[i].name = name THEN i
    ELSE FindPos(ifs, name, i + 1)

\* a lookup that falls back to a default record
FindByNameOrDefault(ifs, name) ==
    IF FindPos(ifs, name, 1) = 0 THEN Ok(NoInterface)
    ELSE Ok(ifs[FindPos(ifs, name, 1)])

FindByName(ifs, name) ==
    IF FindPos(ifs, name, 1) = 0 THEN Err("NotFound", NoInterface)
    ELSE Ok(ifs[FindPos(ifs, name, 1)])

(***************************************************************************)
(* Netlink messages.  A message carries a sequence of attributes; an       *)
(* attribute is [t, s, n, l]: its type, and its string, number or list     *)
(* payload.  A link message also carries header.index,                     *)
(* header.link_layer_type and header.flags.                                *)
(***************************************************************************)
Attr(t, s, n, l) == [t |-> t, s |-> s, n |-> n, l |-> l]
AttrIfName(s) == Attr("IfName", s, 0, <<>>)
AttrOperState(c) == Attr("OperState", "", c, <<>>)
AttrIfIndex(i) == Attr("IfIndex", "", i, <<>>)
AttrWiphy(i) == Attr("Wiphy", "", i, <<>>)
AttrIfType(t) == Attr("IfType", "", t, <<>>)
AttrWiphyName(s) == Attr("WiphyName", s, 0, <<>>)
AttrSupportedIftypes(l) == Attr("SupportedIftypes", "", 0, l)

\* Option<T> of an attribute payload: the last attribute of type t wins
\* (`for attr in attributes { match attr { X(v) => x = Some(v), .. } }`)
RECURSIVE LastAttr(_, _, _)
LastAttr(attrs, t, acc) ==
    IF attrs = <<>> THEN acc
    ELSE LastAttr(Tail(attrs), t,
                  IF Head(attrs).t = t
                  THEN [some |-> TRUE, a |-> Head(attrs)]
                  ELSE acc)

NoAttr == [some |-> FALSE, a |-> Attr("", "", 0, <<>>)]
AttrOf(attrs, t) == LastAttr(attrs, t, NoAttr)

(***************************************************************************)
(* RouteManager::get_interfaces over a stream of link messages             *)
(* [index, link_layer_type, flags, attributes].  Its RouteInterface is     *)
(* [index, name, kind, oper_state].                                        *)
(***************************************************************************)
\* an enumeration that stops at the first record lacking a field
RECURSIVE RouteGetInterfacesBreak(_, _)
RouteGetInterfacesBreak(links, interfaces) ==
    IF links = <<>> THEN interfaces
    ELSE LET link == Head(links)
             ifname == AttrOf(link.attributes, "IfName")
             oper_state == AttrOf(link.attributes, "OperState")
         IN  IF ~ifname.some \/ ~oper_state.some
             THEN interfaces
             ELSE RouteGetInterfacesBreak(Tail(links),
                      Append(interfaces,
                             [index |-> link.index,
                              name |-> ifname.a.s,
                              kind |-> KindOfLinkLayerType(link.link_layer_type),
                              oper_state |-> OperStateFromState(oper_state.a.n)]))

RECURSIVE RouteGetInterfaces(_, _)
RouteGetInterfaces(links, interfaces) ==
    IF links = <<>> THEN interfaces
    ELSE LET link == Head(links)
             ifname == AttrOf(link.attributes, "IfName")
             oper_state == AttrOf(link.attributes, "OperState")
         IN  IF ~ifname.some \/ ~oper_state.some
             THEN RouteGetInterfaces(Tail(links), interfaces)
             ELSE RouteGetInterfaces(Tail(links),
                      Append(interfaces,
                             [index |-> link.index,
                              name |-> ifname.a.s,
                              kind |-> KindOfLinkLayerType(link.link_layer_type),
                              oper_state |-> OperStateFromState(oper_state.a.n)]))

(***************************************************************************)
(* WiphyManager::get_wiphy_interfaces over a stream of nl80211 messages    *)
(* [attributes].                                                           *)
(***************************************************************************)
RECURSIVE WiphyGetInterfaces(_, _)
WiphyGetInterfaces(msgs, interfaces) ==
    IF msgs = <<>> THEN interfaces
    ELSE LET attrs == Head(msgs).attributes
             index == AttrOf(attrs, "IfIndex")
             phy_index == AttrOf(attrs, "Wiphy")
             name == AttrOf(attrs, "IfName")
             iftype == AttrOf(attrs, "IfType")
         IN  IF index.some /\ phy_index.some /\ name.some /\ iftype.some
             THEN WiphyGetInterfaces(Tail(msgs),
                      Append(interfaces,
                             [index |-> index.a.n,
                              phy_index |-> phy_index.a.n,
                              name |-> name.a.s,
                              iftype |-> iftype.a.n]))
             ELSE WiphyGetInterfaces(Tail(msgs), interfaces)

(***************************************************************************)
(* WiphyManager::get_wiphy_devices: the messages of one phy_index are      *)
(* accumulated field by field.                                             *)
(***************************************************************************)
\* a loop in which each message replaces the device of its phy_index
RECURSIVE WiphyGetDevicesMapReplace(_, _)
WiphyGetDevicesMapReplace(msgs, devices) ==
    IF msgs = <<>> THEN devices
    ELSE LET attrs == Head(msgs).attributes
             phy_index == AttrOf(attrs, "Wiphy")
             phy_name == AttrOf(attrs, "WiphyName")
             supported_iftypes == AttrOf(attrs, "SupportedIftypes")
         IN  IF ~phy_index.some
             THEN WiphyGetDevicesMapReplace(Tail(msgs), devices)
             ELSE WiphyGetDevicesMapReplace(Tail(msgs),
                      MapInsert(MapRemove(devices, phy_index.a.n),
                                phy_index.a.n,
                                [phy_index |-> phy_index.a.n,
                                 phy_name |-> IF phy_name.some
                                              THEN phy_name.a.s ELSE "",
                                 supported_iftypes |->
                                     IF supported_iftypes.some
                                     THEN supported_iftypes.a.l ELSE <<>>]))

RECURSIVE WiphyGetDevicesMap(_, _)
WiphyGetDevicesMap(msgs, devices) ==
    IF msgs = <<>> THEN devices
    ELSE LET attrs == Head(msgs).attributes
             phy_index == AttrOf(attrs, "Wiphy")
             phy_name == AttrOf(attrs, "WiphyName")
             supported_iftypes == AttrOf(attrs, "SupportedIftypes")
         IN  IF ~phy_index.some
             THEN WiphyGetDevicesMap(Tail(msgs), devices)
             ELSE LET old == IF MapHas(devices, phy_index.a.n)
                             THEN MapGet(devices, phy_index.a.n)
                             ELSE [phy_index |-> phy_index.a.n,
                                   phy_name |-> "",
                                   supported_iftypes |-> <<>>]
                      named == IF phy_name.some
                               THEN [old EXCEPT !.phy_name = phy_name.a.s]
                               ELSE old
                      wiphy_dev ==
                          IF supported_iftypes.some
                          THEN [named EXCEPT
                                   !.supported_iftypes = supported_iftypes.a.l]
                          ELSE named
                  IN  WiphyGetDevicesMap(Tail(msgs),
                          MapInsert(MapRemove(devices, phy_index.a.n),
                                    phy_index.a.n, wiphy_dev))

\* the Vecs get_wiphy_devices can return
WiphyGetDevices(msgs) == MapValues(WiphyGetDevicesMap(msgs, <<>>))

(***************************************************************************)
(* The kernel, as the handlers see it.  A link is                          *)
(*   [index, name, llt, up, lower]                                         *)
(* where up is the administrative flag (IFF_UP) a link-set request writes, *)
(* and lower is the operational state the link reports while it is         *)
(* administratively up (Up with a carrier, Down without one, Unknown for a *)
(* driver that reports none).  The OperState attribute of a link dump is   *)
(* derived from both; the flags of its header hold IFF_UP when up is set,  *)
(* beside the flags of the link's type.  A wireless interface is           *)
(* [index, phy_index, name, iftype]; a radio is                            *)
(* [phy_index, phy_name, supported_iftypes].                               *)
(***************************************************************************)
KernelOperState(l) == IF l.up THEN l.lower ELSE StateDown

\* header.flags of a link message: IFF_UP, and for an Ethernet link one more
KernelLinkFlags(l) ==
    (IF l.up THEN IffUp ELSE 0) + (IF l.llt = LltEther THEN IffOther ELSE 0)

\* the stream answering rtnetlink.link().get().execute()
KernelLinkDump(links) ==
    [i \in 1..Len(links) |->
        [index |-> links[i].index,
         link_layer_type |-> links[i].llt,
         flags |-> KernelLinkFlags(links[i]),
         attributes |-> <<AttrIfName(links[i].name),
                          AttrOperState(KernelOperState(links[i]))>>]]

\* the stream answering nl80211.interface().get(..).execute()
KernelInterfaceDump(wifs) ==
    [i \in 1..Len(wifs) |->
        [attributes |-> <<AttrIfIndex(wifs[i].index),
                          AttrIfName(wifs[i].name),
                          AttrWiphy(wifs[i].phy_index),
                          AttrIfType(wifs[i].iftype)>>]]

\* the stream answering nl80211.wireless_physic().get().execute(): the
\* kernel splits one radio over two messages
KernelPhyDump(devs) ==
    [i \in 1..(2 * Len(devs)) |->
        IF i % 2 = 1
        THEN [attributes |-> <<AttrWiphy(devs[(i + 1) \div 2].phy_index),
                               AttrWiphyName(devs[(i + 1) \div 2].phy_name)>>]
        ELSE [attributes |-> <<AttrWiphy(devs[i \div 2].phy_index),
                               AttrSupportedIftypes(
                                   devs[i \div 2].supported_iftypes)>>]]

\* RouteManager::get_interfaces; fault is whether the stream ends in a
\* protocol error (`try_next().await?`)
RouteManagerGetInterfaces(stream, fault) ==
    IF fault THEN Err("Protocol", <<>>)
    ELSE Ok(RouteGetInterfaces(stream, <<>>))

\* WiphyManager::get_wiphy_interfaces
WiphyManagerGetInterfaces(stream, fault) ==
    IF fault THEN Err("Protocol", <<>>)
    ELSE Ok(WiphyGetInterfaces(stream, <<>>))

\* WiphyManager::get_wiphy_devices: the results the call can return
WiphyManagerGetDevices(stream, fault) ==
    IF fault THEN {Err("Protocol", <<>>)}
    ELSE {Ok(v) : v \in WiphyGetDevices(stream)}

\* NetlinkService::get_interfaces, given what its three awaits returned, each
\* at its own time: get_wiphy_devices, get_wiphy_interfaces and
\* RouteManager::get_interfaces.  The first error is returned by `?`; the
\* awaits after it are not made.  The value is the set of the results the
\* call can return.
GetInterfaces(devs, wifs, rifs) ==
    IF ~devs.ok THEN {Err(devs.err, <<>>)}
    ELSE IF ~wifs.ok THEN {Err(wifs.err, <<>>)}
    ELSE IF ~rifs.ok THEN {Err(rifs.err, <<>>)}
    ELSE {Ok(v) : v \in MergeInterfaces(devs.v, wifs.v, rifs.v)}

\* NetlinkService::find_interface_by_name, given the same three results
FindInterfaceByName(devs, wifs, rifs, name) ==
    {IF ~all.ok THEN Err(all.err, NoInterface) ELSE FindByName(all.v, name) :
        all \in GetInterfaces(devs, wifs, rifs)}

(***************************************************************************)
(* Where the files meet.  RouteManager::get_interfaces returns records     *)
(* with oper_state (route.rs 25-31), NetlinkService::get_interfaces reads  *)
(* link_flags of the records it is returned and keeps link_flags in its    *)
(* entries (mod.rs 64-71, 158, 172), and the handler of /net/ifstate reads *)
(* oper_state of the entry it is returned (ifstate.rs 60).  Both fields    *)
(* come from the one link message a record is built from: link_flags is    *)
(* the flags of its header, oper_state its OperState attribute.  The two   *)
(* definitions below hand each file the field it reads; no other           *)
(* definition holds a record with both.                                    *)
(***************************************************************************)
\* whether RouteManager::get_interfaces keeps a link message
RouteKeeps(link) ==
    /\ AttrOf(link.attributes, "IfName").some
    /\ AttrOf(link.attributes, "OperState").some

\* `route_interfaces` of NetlinkService::get_interfaces: the result rifs of
\* route_mgr.get_interfaces().await over `stream`, as that function reads
\* it.  Each record has the index, name and kind RouteManager gave it and
\* the flags of the header of its link message.
RouteInterfaces(stream, rifs) ==
    IF ~rifs.ok THEN rifs
    ELSE LET kept == SelectSeq(stream, RouteKeeps)
         IN  Ok([i \in 1..Len(rifs.v) |->
                    [index |-> rifs.v[i].index,
                     name |-> rifs.v[i].name,
                     kind |-> rifs.v[i].kind,
                     link_flags |-> kept[i].flags]])

\* interface.oper_state of the entry named `name`, as a handler reads it.
\* The route pass complements the entry of a name with every record of
\* that name, so the last record decides; an entry of the wireless pass
\* that no route record complemented holds OperState::Unknown, the variant
\* no conversion of a kernel value produces.
OperStateOf(rifs, name) ==
    LET named == {i \in 1..Len(rifs) : rifs[i].name = name}
    IN  IF named = {} THEN OperUnknown
        ELSE rifs[CHOOSE i \in named : \A j \in named : j <= i].oper_state

\* the NetlinkInterface a handler holds: [index, name, kind, oper_state,
\* mode_status]
InterfaceSeen(interface, rifs) ==
    [index |-> interface.index,
     name |-> interface.name,
     kind |-> interface.kind,
     oper_state |-> OperStateOf(rifs, interface.name),
     mode_status |-> interface.mode_status]

NoInterfaceSeen == InterfaceSeen(NoInterface, <<>>)

\* find_interface_by_name as a handler awaits it: devs and wifs are what the
\* first two awaits returned, `stream` is the link dump of the third and
\* fault whether that dump fails
FindInterface(devs, wifs, stream, fault, name) ==
    LET rifs == RouteManagerGetInterfaces(stream, fault)
    IN  {[found EXCEPT !.v = InterfaceSeen(@, rifs.v)] :
            found \in FindInterfaceByName(devs, wifs,
                                          RouteInterfaces(stream, rifs), name)}

(***************************************************************************)
(* The managers' mutators and the kernel's answer to them.                 *)
(***************************************************************************)
\* a request builder that treats every other target as Down
LinkSetRequestLax(index, state) ==
    IF state.tag = "Up" THEN Ok([index |-> index, up |-> TRUE])
    ELSE Ok([index |-> index, up |-> FALSE])

\* the message RouteManager::set_link_oper_state builds: LinkUnspec with the
\* index, .down() or .up(); any other target returns the invalid-input error
LinkSetRequest(index, state) ==
    IF state.tag = "Down" THEN Ok([index |-> index, up |-> FALSE])
    ELSE IF state.tag = "Up" THEN Ok([index |-> index, up |-> TRUE])
    ELSE Err("InvalidInput", [index |-> index, up |-> FALSE])

KernelHasLink(links, index) == \E i \in 1..Len(links) : links[i].index = index

\* the kernel applying an accepted link-set request: the administrative flag
KernelSetLink(links, msg) ==
    [i \in 1..Len(links) |->
        IF links[i].index = msg.index
        THEN [links[i] EXCEPT !.up = msg.up]
        ELSE links[i]]

\* RouteManager::set_link_oper_state; kfault is whether the kernel refuses
\* the request.  sent counts the requests that reached the kernel.
SetLinkOperState(links, index, state, kfault) ==
    LET msg == LinkSetRequest(index, state)
    IN  IF ~msg.ok
        THEN [res |-> Err(msg.err, 0), links |-> links, sent |-> 0]
        ELSE IF kfault \/ ~KernelHasLink(links, index)
        THEN [res |-> Err("Protocol", 0), links |-> links, sent |-> 1]
        ELSE [res |-> Ok(0), links |-> KernelSetLink(links, msg.v), sent |-> 1]

\* NetlinkService::set_interface_oper_state: the interface is converted to a
\* RouteInterface (its index is what the manager uses) and handed on
SetInterfaceOperState(links, interface, state, kfault) ==
    SetLinkOperState(links, interface.index, state, kfault)

KernelHasWif(wifs, index) == \E i \in 1..Len(wifs) : wifs[i].index = index

\* whether the radio of interface `index` lists `iftype` as supported
KernelSupports(wifs, devs, index, iftype) ==
    \E i \in 1..Len(wifs), d \in 1..Len(devs) :
        /\ wifs[i].index = index
        /\ devs[d].phy_index = wifs[i].phy_index
        /\ \E j \in 1..Len(devs[d].supported_iftypes) :
               devs[d].supported_iftypes[j] = iftype

\* the kernel applying an accepted set-interface request
KernelSetIftype(wifs, index, iftype) ==
    [i \in 1..Len(wifs) |->
        IF wifs[i].index = index
        THEN [wifs[i] EXCEPT !.iftype = iftype]
        ELSE wifs[i]]

\* WiphyManager::set_wiphy_interface_mode: the attributes are built from the
\* index and the type as given, and the request is executed
SetWiphyInterfaceMode(wifs, devs, index, iftype, kfault) ==
    IF kfault \/ ~KernelSupports(wifs, devs, index, iftype)
    THEN [res |-> Err("Protocol", 0), wifs |-> wifs, sent |-> 1]
    ELSE [res |-> Ok(0), wifs |-> KernelSetIftype(wifs, index, iftype),
          sent |-> 1]

\* whether the kernel takes a new-interface request: the radio exists and
\* lists the type, and no interface has the name
KernelAdmits(links, wifs, devs, phy_index, iftype, name) ==
    /\ \E d \in 1..Len(devs) :
          /\ devs[d].phy_index = phy_index
          /\ \E j \in 1..Len(devs[d].supported_iftypes) :
                 devs[d].supported_iftypes[j] = iftype
    /\ \A i \in 1..Len(links) : links[i].name # name
    /\ \A i \in 1..Len(wifs) : wifs[i].name # name

\* the kernel applying an accepted new-interface request; the index of the
\* new interface is one past the highest in use
KernelAddInterface(links, wifs, phy_index, iftype, name) ==
    LET used == {0} \cup {links[i].index : i \in 1..Len(links)}
                    \cup {wifs[i].index : i \in 1..Len(wifs)}
        top == CHOOSE n \in used : \A k \in used : k <= n
    IN  Append(wifs, [index |-> top + 1, phy_index |-> phy_index,
                      name |-> name, iftype |-> iftype])

\* the kernel applying an accepted del-interface request
KernelDelInterface(wifs, index) ==
    SelectSeq(wifs, LAMBDA w : w.index # index)

\* WiphyManager::create_wiphy_interface: one new-interface request with the
\* radio's index, the type and the name
CreateWiphyInterface(links, wifs, devs, wiphy_dev, iftype, name, kfault) ==
    IF kfault \/ ~KernelAdmits(links, wifs, devs, wiphy_dev.phy_index,
                               iftype, name)
    THEN [res |-> Err("Protocol", 0), wifs |-> wifs, sent |-> 1]
    ELSE [res |-> Ok(0),
          wifs |-> KernelAddInterface(links, wifs, wiphy_dev.phy_index,
                                      iftype, name),
          sent |-> 1]

\* WiphyManager::delete_wiphy_interface: one del-interface request with the
\* interface's index
DeleteWiphyInterface(wifs, wiphy_iface, kfault) ==
    IF kfault \/ ~KernelHasWif(wifs, wiphy_iface.index)
    THEN [res |-> Err("Protocol", 0), wifs |-> wifs, sent |-> 1]
    ELSE [res |-> Ok(0), wifs |-> KernelDelInterface(wifs, wiphy_iface.index),
          sent |-> 1]

\* what NetlinkService::set_interface_mode does before it calls the manager:
\* the live WiphyInterface is resolved by index and the mode converted.
\* qfault is whether the enumeration of the wireless interfaces fails.
LiveWiphyInterface(wifs, interface, mode, qfault) ==
    LET iftype == InterfaceTypeTryFromMode(mode)
        none == [index |-> 0, iftype |-> 0]
    IN  IF qfault THEN Err("Protocol", none)
        ELSE IF ~KernelHasWif(wifs, interface.index)
        THEN Err("NotWireless", none)
        ELSE IF ~iftype.ok THEN Err("InvalidInput", none)
        ELSE Ok([index |-> interface.index, iftype |-> iftype.v])

\* NetlinkService::set_interface_mode: the manager is called with the live
\* interface and the converted mode, once both are there
SetInterfaceMode(wifs, devs, interface, mode, qfault, kfault) ==
    LET live == LiveWiphyInterface(wifs, interface, mode, qfault)
    IN  IF ~live.ok
        THEN [res |-> Err(live.err, 0), wifs |-> wifs, sent |-> 0]
        ELSE SetWiphyInterfaceMode(wifs, devs, live.v.index, live.v.iftype,
                                   kfault)

(***************************************************************************)
(* The handlers of POST /net/ifstate and POST /net/ifmode, step by step.   *)
(***************************************************************************)
\* a resolution that goes on with a default interface when the lookup fails
ResolveOutcomeLax(found) ==
    IF found.ok THEN Ok(found.v) ELSE Ok(NoInterfaceSeen)

\* find_interface_by_name(..).await.map_err(|_| Error::InterfaceNotFound)?
ResolveOutcome(found) ==
    IF found.ok THEN Ok(found.v)
    ELSE Err("InterfaceNotFound", NoInterfaceSeen)

\* a handler that goes on to the confirmation whatever the mutator returned
MutateOutcomeLax(res) == Ok(0)

\* set_interface_..(..).await.map_err(|_| Error::UnexpectedError)?
MutateOutcome(res) ==
    IF res.ok THEN Ok(0) ELSE Err("UnexpectedError", 0)

\* a response that echoes the requested target
IfStateResponseEcho(target, before, after) ==
    IF ~after.ok THEN Err("UnexpectedError", OperUnknown)
    ELSE Ok(target)

\* ifstate: the second find_interface_by_name and the response body,
\* PostResponseBody { oper_state: interface.oper_state }
IfStateResponse(target, before, after) ==
    IF ~after.ok THEN Err("UnexpectedError", OperUnknown)
    ELSE Ok(after.v.oper_state)

\* ifmode: the second find_interface_by_name and the response body
IfModeResponse(target, before, after) ==
    IF ~after.ok THEN Err("UnexpectedError", OperUnknown)
    ELSE IF after.v.mode_status.some THEN Ok(after.v.mode_status.active)
    ELSE Err("UnexpectedError", OperUnknown)

\* serde: IfState has the variants Down and Up; NetlinkInterfaceMode skips
\* OtherWireless when deserializing
PayloadAccepted(kind, target) ==
    IF kind = "ifstate" THEN target.tag \in {"Down", "Up"}
    ELSE target.tag \in {"Station", "Monitor", "AccessPoint"}

\* impl Into<OperState> for IfState
IfStateInto(t) == IF t.tag = "Down" THEN OperDown ELSE OperUp

(***************************************************************************)
(* State.                                                                  *)
(***************************************************************************)
VARIABLES
    m_devs, m_wifs, m_rifs, \* SpecMerge: the lists the managers returned
    m_out,                  \* SpecMerge: the call made and what it returned
    k_links, k_wifs, k_devs,\* the kernel's links, interfaces, radios
    req,                    \* Spec: the requests in flight, by slot
    call,                   \* SpecCall: the last call of a manager mutator
    ops_left, env_left,     \* what is left of the budgets
    c_in, c_out,            \* SpecClient: the request and the resolver's answer
    e_in, e_out,            \* SpecEnum: the manager call, its stream, its result
    a_session, a_now,       \* SpecHttp: the global session and the clock
    a_next_id,              \* SpecHttp: the next fresh session id
    h, h_left, t_left,      \* SpecHttp: the request in flight and the budgets
    l_tasks, l_held,        \* SpecLife: the spawned tasks; whether their owner lives
    l_objs, l_left,         \* SpecLife: the live managers and services; the budget
    th, lock,               \* SpecAuth: the callers of AuthService; the lock's holder
    g, calls_left           \* SpecAuth: the history of the session; the budget

merge_vars == <<m_devs, m_wifs, m_rifs, m_out>>
proto_vars == <<k_links, k_wifs, k_devs, req, call, ops_left, env_left>>
client_vars == <<c_in, c_out>>
enum_vars == <<e_in, e_out>>
http_vars == <<a_session, a_now, a_next_id, h, h_left, t_left>>
life_vars == <<l_tasks, l_held, l_objs, l_left>>
auth_vars == <<th, lock, g, calls_left>>
vars == <<m_devs, m_wifs, m_rifs, m_out,
          k_links, k_wifs, k_devs, req, call, ops_left, env_left,
          c_in, c_out, e_in, e_out,
          a_session, a_now, a_next_id, h, h_left, t_left,
          l_tasks, l_held, l_objs, l_left,
          th, lock, g, calls_left>>

\* what the actions of one specification leave alone
not_merge_vars ==
    <<proto_vars, client_vars, enum_vars, http_vars, life_vars, auth_vars>>
not_proto_vars ==
    <<merge_vars, client_vars, enum_vars, http_vars, life_vars, auth_vars>>
not_client_vars ==
    <<merge_vars, proto_vars, enum_vars, http_vars, life_vars, auth_vars>>
not_enum_vars ==
    <<merge_vars, proto_vars, client_vars, http_vars, life_vars, auth_vars>>
not_http_vars ==
    <<merge_vars, proto_vars, client_vars, enum_vars, life_vars, auth_vars>>
not_auth_vars ==
    <<merge_vars, proto_vars, client_vars, enum_vars, life_vars,
      h, h_left>>
not_life_vars ==
    <<merge_vars, proto_vars, client_vars, enum_vars, http_vars, auth_vars>>

SeqsUpTo(S, n) == UNION {[1..k -> S] : k \in 0..n}

(***************************************************************************)
(* SpecMerge: get_interfaces and find_interface_by_name on drawn lists.    *)
(***************************************************************************)
Names == {"wlan0", "eth0"}
AskedNames == Names \cup {"lo"}

MergeDevSet ==
    {[phy_index |-> 0, phy_name |-> "phy0",
      supported_iftypes |-> <<IftStation, IftMonitor, IftAp>>],
     [phy_index |-> 1, phy_name |-> "phy1",
      supported_iftypes |-> <<IftAdhoc>>]}

MergeWifSet ==
    {[index |-> 3, phy_index |-> 0, name |-> n, iftype |-> IftStation] :
        n \in Names}
    \cup {[index |-> 4, phy_index |-> 1, name |-> n, iftype |-> IftAdhoc] :
             n \in Names}

\* the route records the merge is handed: an Ethernet link that is up (index
\* 1) or down (index 3), and a link of another type that is down with no
\* flag set (index 1) or up (index 3)
MergeRifSet ==
    {[index |-> 1, name |-> n, kind |-> KindEthernet,
      link_flags |-> IffUp + IffOther] : n \in Names}
    \cup {[index |-> 3, name |-> n, kind |-> KindEthernet,
           link_flags |-> IffOther] : n \in Names}
    \cup {[index |-> 1, name |-> n, kind |-> KindUnknown(LltNetrom),
           link_flags |-> 0] : n \in Names}
    \cup {[index |-> 3, name |-> n, kind |-> KindUnknown(LltNetrom),
           link_flags |-> IffUp] : n \in Names}

NoCall == [fn |-> "none", name |-> "", list |-> <<>>,
           found |-> Err("", NoInterface)]

MergeInit ==
    /\ m_devs \in SeqsUpTo(MergeDevSet, MaxDevs)
    /\ m_wifs \in SeqsUpTo(MergeWifSet, MaxWifs)
    /\ m_rifs \in SeqsUpTo(MergeRifSet, MaxRifs)
    /\ m_out = NoCall

\* NetlinkService::get_interfaces returning, the three manager calls having
\* returned m_devs, m_wifs and m_rifs
MergeGetInterfaces ==
    /\ m_out.fn = "none"
    /\ \E all \in MergeInterfaces(m_devs, m_wifs, m_rifs) :
          m_out' = [NoCall EXCEPT !.fn = "get_interfaces", !.list = all]
    /\ UNCHANGED <<m_devs, m_wifs, m_rifs, not_merge_vars>>

\* NetlinkService::find_interface_by_name(name) returning
MergeFindInterfaceByName ==
    /\ m_out.fn = "none"
    /\ \E name \in AskedNames,
          all \in MergeInterfaces(m_devs, m_wifs, m_rifs) :
          m_out' = [NoCall EXCEPT
                       !.fn = "find_interface_by_name",
                       !.name = name,
                       !.found = FindByName(all, name)]
    /\ UNCHANGED <<m_devs, m_wifs, m_rifs, not_merge_vars>>

(***************************************************************************)
(* Spec: the protocol.  One operation is followed step by step; whatever   *)
(* else writes the kernel meanwhile (other requests of this server, other  *)
(* programs, hardware) is one of the "other actors" below.                 *)
(***************************************************************************)
MaxOps == 3
MaxEnv == 2
Reqs == {1}

NoResp == Err("", OperUnknown)

\* what is remembered of the operation a slot completed last
NoPrev ==
    [valid |-> FALSE, kind |-> "", name |-> "", target |-> OperUnknown,
     resp |-> NoResp, clean |-> FALSE]

\* kept of a set-link-state(Up) that ran undisturbed and without a kernel
\* fault; nothing is kept of any other operation
Summary(q) ==
    IF q.kind = "ifstate" /\ q.target = OperUp /\ q.clean /\ ~q.faulted
    THEN [valid |-> TRUE, kind |-> q.kind, name |-> q.name,
          target |-> q.target, resp |-> q.resp, clean |-> TRUE]
    ELSE NoPrev

IdleReq ==
    [pc |-> "idle", kind |-> "", name |-> "", target |-> OperUnknown,
     iface |-> NoInterfaceSeen, resp |-> NoResp,
     calls |-> 0,     \* calls of a manager's mutator made by this operation
     sent |-> 0,      \* mutation requests of this operation the kernel got
     clean |-> TRUE,  \* no one else wrote the kernel since the operation began
     faulted |-> FALSE, \* a kernel exchange of the operation failed
     absent |-> FALSE,\* the first enumeration worked and lacked the name
     rfault |-> FALSE,\* the first enumeration failed
     mfail |-> FALSE, \* the manager's mutator was called and returned an
                      \* error
     sfailed |-> FALSE, \* it did in a set-link-state this slot completed
                        \* before this operation
     queries |-> 0,   \* calls of find_interface_by_name by this operation
     q_devs |-> <<>>, \* what get_wiphy_devices returned to the running query
     q_wifs |-> <<>>, \* what get_wiphy_interfaces returned to it
     k_oper |-> 0 - 1,  \* the operational state the kernel reported for the
                        \* name when the confirming query dumped the links
                        \* (-1: no link of that name)
     k_type |-> 0 - 1,  \* the kernel's iftype of the name when the confirming
                        \* query dumped the wireless interfaces
     prev |-> NoPrev] \* the operation this slot completed before this one

NoMgrCall ==
    [fn |-> "none", target |-> OperUnknown, index |-> 0,
     res |-> Err("", 0), sent |-> 0, changed |-> FALSE]

KernelDevs ==
    <<[phy_index |-> 0, phy_name |-> "phy0",
       supported_iftypes |-> <<IftAdhoc, IftStation, IftAp, IftMonitor>>]>>

ProtoInit ==
    /\ k_devs = KernelDevs
    /\ k_wifs = <<[index |-> 3, phy_index |-> 0, name |-> "wlan0",
                   iftype |-> IftStation]>>
    /\ \E u1 \in BOOLEAN, l1 \in {StateUp, StateDown, StateUnknown},
          u3 \in BOOLEAN :
          k_links = <<[index |-> 1, name |-> "eth0", llt |-> LltEther,
                       up |-> u1, lower |-> l1],
                      [index |-> 3, name |-> "wlan0", llt |-> LltEther,
                       up |-> u3, lower |-> StateUp]>>
    /\ req = [r \in Reqs |-> IdleReq]
    /\ call = NoMgrCall
    /\ env_left = MaxEnv

\* what the kernel holds for a name (names are unique in a running kernel)
KernelOperOf(links, name) ==
    IF \E i \in 1..Len(links) : links[i].name = name
    THEN KernelOperState(
             links[CHOOSE i \in 1..Len(links) : links[i].name = name])
    ELSE 0 - 1

KernelTypeOf(wifs, name) ==
    IF \E i \in 1..Len(wifs) : wifs[i].name = name
    THEN wifs[CHOOSE i \in 1..Len(wifs) : wifs[i].name = name].iftype
    ELSE 0 - 1

\* whether one of two lists of records holds the name
Listed(wifs, rifs, name) ==
    \/ \E i \in 1..Len(wifs) : wifs[i].name = name
    \/ \E i \in 1..Len(rifs) : rifs[i].name = name

\* the slots after a write of the kernel by someone other than slot r0
\* (0: by no slot); `wrote` is whether the kernel state changed
Disturbed(rq, r0, wrote) ==
    [r \in Reqs |->
        IF r = r0 \/ ~wrote THEN rq[r]
        ELSE [rq[r] EXCEPT !.clean = FALSE, !.prev = NoPrev]]

IfStateTargets == {OperDown, OperUp}
IfModeTargets ==
    {ModeStation, ModeMonitor, ModeAccessPoint, ModeOtherWireless(IftAdhoc)}

\* the request arrives and its body is deserialized; a body serde refuses
\* never reaches the handler
Start(r) ==
    /\ req[r].pc = "idle"
    /\ ops_left > 0
    /\ \E kind \in {"ifstate", "ifmode"}, name \in AskedNames,
          target \in IfStateTargets \cup IfModeTargets :
          /\ kind = "ifstate" => target \in IfStateTargets
          /\ kind = "ifmode" => target \in IfModeTargets
          /\ req' = [req EXCEPT ![r] =
                 [IdleReq EXCEPT
                     !.kind = kind, !.name = name, !.target = target,
                     !.prev = req[r].prev,
                     !.sfailed = req[r].sfailed,
                     !.pc = IF PayloadAccepted(kind, target)
                            THEN "resolve" ELSE "done",
                     !.resp = IF PayloadAccepted(kind, target)
                              THEN NoResp
                              ELSE Err("BadRequest", OperUnknown)]]
    /\ ops_left' = ops_left - 1
    /\ UNCHANGED <<k_links, k_wifs, k_devs, call, env_left>>
    /\ UNCHANGED not_proto_vars

\* find_interface_by_name awaits get_interfaces, which awaits three kernel
\* dumps one after the other; whoever else writes the kernel may do so
\* between two of them.  The first await: the radios.
QueryDevices(q, phase, devs) ==
    [q EXCEPT !.queries = @ + 1, !.q_devs = devs.v, !.pc = phase]

\* the second await: the wireless interfaces
QueryInterfaces(q, phase, wifs) ==
    [q EXCEPT !.q_wifs = wifs.v, !.pc = phase]

\* the slot after the first find_interface_by_name returned `found`:
\* .map_err(|_| Error::InterfaceNotFound)? and on to the mutation
Resolved(q, found) ==
    LET out == ResolveOutcome(found)
    IN  [q EXCEPT
            !.iface = out.v,
            !.q_devs = <<>>, !.q_wifs = <<>>,
            !.pc = IF out.ok THEN "mutate" ELSE "done",
            !.resp = IF out.ok THEN NoResp ELSE Err(out.err, OperUnknown)]

\* step 1: resolve the interface by name.  The radios are dumped.
ResolveDevices(r) ==
    /\ req[r].pc = "resolve"
    /\ \E fault \in BOOLEAN :
          \E devs \in WiphyManagerGetDevices(KernelPhyDump(k_devs), fault) :
             \E found \in FindInterface(devs, Ok(<<>>), <<>>, FALSE,
                                        req[r].name) :
                req' = [req EXCEPT ![r] =
                    IF devs.ok THEN QueryDevices(@, "resolve_wifs", devs)
                    ELSE Resolved([@ EXCEPT !.queries = @ + 1,
                                            !.rfault = TRUE, !.faulted = TRUE],
                                  found)]
    /\ UNCHANGED <<k_links, k_wifs, k_devs, call, ops_left, env_left>>
    /\ UNCHANGED not_proto_vars

\* step 1, going on: the wireless interfaces are dumped
ResolveInterfaces(r) ==
    /\ req[r].pc = "resolve_wifs"
    /\ \E fault \in BOOLEAN :
          LET wifs == WiphyManagerGetInterfaces(KernelInterfaceDump(k_wifs),
                                                fault)
          IN  \E found \in FindInterface(Ok(req[r].q_devs), wifs, <<>>,
                                         FALSE, req[r].name) :
                 req' = [req EXCEPT ![r] =
                     IF wifs.ok THEN QueryInterfaces(@, "resolve_links", wifs)
                     ELSE Resolved([@ EXCEPT !.rfault = TRUE,
                                             !.faulted = TRUE], found)]
    /\ UNCHANGED <<k_links, k_wifs, k_devs, call, ops_left, env_left>>
    /\ UNCHANGED not_proto_vars

\* step 1, ending: the links are dumped, the lists merged, the name looked up
Resolve(r) ==
    /\ req[r].pc = "resolve_links"
    /\ \E fault \in BOOLEAN :
          LET rifs == RouteManagerGetInterfaces(KernelLinkDump(k_links), fault)
              q == [req[r] EXCEPT
                       !.rfault = fault,
                       !.faulted = fault,
                       !.absent = ~fault /\ ~Listed(req[r].q_wifs, rifs.v,
                                                    req[r].name)]
          IN  \E found \in FindInterface(Ok(req[r].q_devs),
                                         Ok(req[r].q_wifs),
                                         KernelLinkDump(k_links), fault,
                                         req[r].name) :
                 req' = [req EXCEPT ![r] = Resolved(q, found)]
    /\ UNCHANGED <<k_links, k_wifs, k_devs, call, ops_left, env_left>>
    /\ UNCHANGED not_proto_vars

\* steps 3 and 4 of /net/ifstate: the mutation through RouteManager, which
\* the service calls whatever the interface is
MutateState(r) ==
    /\ req[r].pc = "mutate"
    /\ req[r].kind = "ifstate"
    /\ \E kfault \in BOOLEAN :
          LET m == SetInterfaceOperState(k_links, req[r].iface,
                                         IfStateInto(req[r].target), kfault)
              out == MutateOutcome(m.res)
              mine == [req[r] EXCEPT
                          !.calls = @ + 1,
                          !.sent = @ + m.sent,
                          !.mfail = ~m.res.ok,
                          !.faulted = @ \/ kfault,
                          !.pc = IF out.ok THEN "confirm" ELSE "done",
                          !.resp = IF out.ok THEN NoResp
                                   ELSE Err(out.err, OperUnknown)]
          IN  /\ k_links' = m.links
              /\ req' = Disturbed([req EXCEPT ![r] = mine], r,
                                  m.links # k_links)
    /\ UNCHANGED <<k_wifs, k_devs, call, ops_left, env_left>>
    /\ UNCHANGED not_proto_vars

\* steps 3 and 4 of /net/ifmode: the mutation through WiphyManager, which
\* the service calls once it has the live interface
MutateMode(r) ==
    /\ req[r].pc = "mutate"
    /\ req[r].kind = "ifmode"
    /\ \E qfault \in BOOLEAN, kfault \in BOOLEAN :
          LET m == SetInterfaceMode(k_wifs, k_devs, req[r].iface,
                                    req[r].target, qfault, kfault)
              called == LiveWiphyInterface(k_wifs, req[r].iface,
                                           req[r].target, qfault).ok
              out == MutateOutcome(m.res)
              mine == [req[r] EXCEPT
                          !.calls = IF called THEN @ + 1 ELSE @,
                          !.sent = @ + m.sent,
                          !.mfail = called /\ ~m.res.ok,
                          !.faulted = @ \/ qfault \/ kfault,
                          !.pc = IF out.ok THEN "confirm" ELSE "done",
                          !.resp = IF out.ok THEN NoResp
                                   ELSE Err(out.err, OperUnknown)]
          IN  /\ k_wifs' = m.wifs
              /\ req' = Disturbed([req EXCEPT ![r] = mine], r,
                                  m.wifs # k_wifs)
    /\ UNCHANGED <<k_links, k_devs, call, ops_left, env_left>>
    /\ UNCHANGED not_proto_vars

\* the slot after the second find_interface_by_name returned `after`: the
\* response body, or .map_err(|_| Error::UnexpectedError)?
Confirmed(q, after) ==
    [q EXCEPT
        !.pc = "done",
        !.q_devs = <<>>, !.q_wifs = <<>>,
        !.resp = IF q.kind = "ifstate"
                 THEN IfStateResponse(IfStateInto(q.target), q.iface, after)
                 ELSE IfModeResponse(q.target, q.iface, after)]

\* step 5: resolve again.  The radios are dumped.
ConfirmDevices(r) ==
    /\ req[r].pc = "confirm"
    /\ \E fault \in BOOLEAN :
          \E devs \in WiphyManagerGetDevices(KernelPhyDump(k_devs), fault) :
             \E after \in FindInterface(devs, Ok(<<>>), <<>>, FALSE,
                                        req[r].name) :
                req' = [req EXCEPT ![r] =
                    IF devs.ok THEN QueryDevices(@, "confirm_wifs", devs)
                    ELSE Confirmed([@ EXCEPT !.queries = @ + 1,
                                             !.faulted = TRUE], after)]
    /\ UNCHANGED <<k_links, k_wifs, k_devs, call, ops_left, env_left>>
    /\ UNCHANGED not_proto_vars

\* step 5, going on: the wireless interfaces are dumped
ConfirmInterfaces(r) ==
    /\ req[r].pc = "confirm_wifs"
    /\ \E fault \in BOOLEAN :
          LET wifs == WiphyManagerGetInterfaces(KernelInterfaceDump(k_wifs),
                                                fault)
          IN  \E after \in FindInterface(Ok(req[r].q_devs), wifs, <<>>,
                                         FALSE, req[r].name) :
                 req' = [req EXCEPT ![r] =
                     IF wifs.ok
                     THEN [QueryInterfaces(@, "confirm_links", wifs) EXCEPT
                              !.k_type = KernelTypeOf(k_wifs, req[r].name)]
                     ELSE Confirmed([@ EXCEPT !.faulted = TRUE], after)]
    /\ UNCHANGED <<k_links, k_wifs, k_devs, call, ops_left, env_left>>
    /\ UNCHANGED not_proto_vars

\* step 5, ending: the links are dumped, the lists merged, the name looked
\* up, and what was read is the answer
Confirm(r) ==
    /\ req[r].pc = "confirm_links"
    /\ \E fault \in BOOLEAN :
          LET q == [req[r] EXCEPT
                       !.faulted = @ \/ fault,
                       !.k_oper = KernelOperOf(k_links, req[r].name)]
          IN  \E after \in FindInterface(Ok(req[r].q_devs),
                                         Ok(req[r].q_wifs),
                                         KernelLinkDump(k_links), fault,
                                         req[r].name) :
                 req' = [req EXCEPT ![r] = Confirmed(q, after)]
    /\ UNCHANGED <<k_links, k_wifs, k_devs, call, ops_left, env_left>>
    /\ UNCHANGED not_proto_vars

\* the response is written and the slot is free again
Finish(r) ==
    /\ req[r].pc = "done"
    /\ req' = [req EXCEPT ![r] =
                  [IdleReq EXCEPT
                      !.prev = Summary(req[r]),
                      !.sfailed = req[r].sfailed
                                      \/ (req[r].mfail
                                          /\ req[r].kind = "ifstate")]]
    /\ UNCHANGED <<k_links, k_wifs, k_devs, call, ops_left, env_left>>
    /\ UNCHANGED not_proto_vars

(***************************************************************************)
(* SpecCall: direct calls of the managers' mutators on the same kernel,    *)
(* with every value their parameter types admit.  No handler runs here.    *)
(***************************************************************************)
MaxCalls == 2

CallInit ==
    /\ ProtoInit
    /\ ops_left = MaxCalls

OperStates == {OperUnknown, OperDown, OperUp, OperOther(StateUnknown)}
Modes ==
    {ModeStation, ModeMonitor, ModeAccessPoint, ModeOtherWireless(IftAdhoc)}

\* RouteManager::set_link_oper_state(route_interface, state)
CallSetLinkOperState ==
    /\ ops_left > 0
    /\ \E i \in 1..Len(k_links), state \in OperStates, kfault \in BOOLEAN :
          LET m == SetLinkOperState(k_links, k_links[i].index, state, kfault)
          IN  /\ k_links' = m.links
              /\ call' = [fn |-> "set_link_oper_state", target |-> state,
                          index |-> k_links[i].index, res |-> m.res,
                          sent |-> m.sent, changed |-> m.links # k_links]
    /\ ops_left' = ops_left - 1
    /\ UNCHANGED <<k_wifs, k_devs, req, env_left>>
    /\ UNCHANGED not_proto_vars

\* mode.try_into() followed by WiphyManager::set_wiphy_interface_mode on an
\* interface the wireless enumeration just returned
CallSetWiphyInterfaceMode ==
    /\ ops_left > 0
    /\ \E i \in 1..Len(k_wifs), mode \in Modes, kfault \in BOOLEAN :
          LET iftype == InterfaceTypeTryFromMode(mode)
              m == IF iftype.ok
                   THEN SetWiphyInterfaceMode(k_wifs, k_devs, k_wifs[i].index,
                                              iftype.v, kfault)
                   ELSE [res |-> Err("InvalidInput", 0), wifs |-> k_wifs,
                         sent |-> 0]
          IN  /\ k_wifs' = m.wifs
              /\ call' = [fn |-> "set_wiphy_interface_mode", target |-> mode,
                          index |-> k_wifs[i].index, res |-> m.res,
                          sent |-> m.sent, changed |-> m.wifs # k_wifs]
    /\ ops_left' = ops_left - 1
    /\ UNCHANGED <<k_links, k_devs, req, env_left>>
    /\ UNCHANGED not_proto_vars

\* the radios create_wiphy_interface is called with: one the enumeration
\* returned or one that is gone
CallDevs ==
    {KernelDevs[1],
     [phy_index |-> 1, phy_name |-> "phy1", supported_iftypes |-> <<>>]}

\* the interfaces delete_wiphy_interface is called with: one the enumeration
\* returned at the start, or one created since
CallWifs ==
    {[index |-> 3, phy_index |-> 0, name |-> "wlan0", iftype |-> IftStation],
     [index |-> 4, phy_index |-> 0, name |-> "mon0", iftype |-> IftMonitor]}

\* WiphyManager::create_wiphy_interface(wiphy_dev, iftype, name)
CallCreateWiphyInterface ==
    /\ ops_left > 0
    /\ \E dev \in CallDevs, iftype \in {IftStation, IftMonitor},
          name \in {"wlan0", "mon0"}, kfault \in BOOLEAN :
          LET m == CreateWiphyInterface(k_links, k_wifs, k_devs, dev, iftype,
                                        name, kfault)
          IN  /\ k_wifs' = m.wifs
              /\ call' = [fn |-> "create_wiphy_interface",
                          target |-> ModeFromInterfaceType(iftype),
                          index |-> dev.phy_index, res |-> m.res,
                          sent |-> m.sent, changed |-> m.wifs # k_wifs]
    /\ ops_left' = ops_left - 1
    /\ UNCHANGED <<k_links, k_devs, req, env_left>>
    /\ UNCHANGED not_proto_vars

\* WiphyManager::delete_wiphy_interface(wiphy_iface)
CallDeleteWiphyInterface ==
    /\ ops_left > 0
    /\ \E wif \in CallWifs, kfault \in BOOLEAN :
          LET m == DeleteWiphyInterface(k_wifs, wif, kfault)
          IN  /\ k_wifs' = m.wifs
              /\ call' = [fn |-> "delete_wiphy_interface",
                          target |-> ModeFromInterfaceType(wif.iftype),
                          index |-> wif.index, res |-> m.res,
                          sent |-> m.sent, changed |-> m.wifs # k_wifs]
    /\ ops_left' = ops_left - 1
    /\ UNCHANGED <<k_links, k_devs, req, env_left>>
    /\ UNCHANGED not_proto_vars

(***************************************************************************)
(* Other actors on the same kernel.                                        *)
(***************************************************************************)
\* the administrative flag of a link is flipped
EnvFlag ==
    /\ env_left > 0
    /\ \E i \in 1..Len(k_links) :
          k_links' = [k_links EXCEPT ![i].up = ~@]
    /\ req' = Disturbed(req, 0, TRUE)
    /\ env_left' = env_left - 1
    /\ UNCHANGED <<k_wifs, k_devs, call, ops_left>>
    /\ UNCHANGED not_proto_vars

\* a carrier comes or goes
EnvCarrier ==
    /\ env_left > 0
    /\ \E i \in 1..Len(k_links) :
          k_links' = [k_links EXCEPT
                         ![i].lower = IF @ = StateUp THEN StateDown
                                      ELSE StateUp]
    /\ req' = Disturbed(req, 0, TRUE)
    /\ env_left' = env_left - 1
    /\ UNCHANGED <<k_wifs, k_devs, call, ops_left>>
    /\ UNCHANGED not_proto_vars

\* the type of a wireless interface is changed
EnvType ==
    /\ env_left > 0
    /\ \E i \in 1..Len(k_wifs), t \in {IftStation, IftMonitor, IftAdhoc} :
          /\ t # k_wifs[i].iftype
          /\ k_wifs' = [k_wifs EXCEPT ![i].iftype = t]
    /\ req' = Disturbed(req, 0, TRUE)
    /\ env_left' = env_left - 1
    /\ UNCHANGED <<k_links, k_devs, call, ops_left>>
    /\ UNCHANGED not_proto_vars

\* an interface goes away
EnvRemove ==
    /\ env_left > 0
    /\ \E i \in 1..Len(k_links) :
          /\ k_links' = SubSeq(k_links, 1, i - 1)
                        \o SubSeq(k_links, i + 1, Len(k_links))
          /\ k_wifs' = SelectSeq(k_wifs,
                                 LAMBDA w : w.name # k_links[i].name)
    /\ req' = Disturbed(req, 0, TRUE)
    /\ env_left' = env_left - 1
    /\ UNCHANGED <<k_devs, call, ops_left>>
    /\ UNCHANGED not_proto_vars

(***************************************************************************)
(* SpecClient: RouterClient::from_request_parts.                           *)
(* The request is [connect, handle, socket_ip, header, neigh, fault]:      *)
(* whether the ConnectInfo and the rtnetlink Handle extensions are there,  *)
(* the peer's address, the X-Real-IP header (text "" when absent), the     *)
(* neighbour messages the kernel would stream, and whether the stream      *)
(* fails on its first item.  A neighbour message is [attributes]; the      *)
(* attributes are Destination (s: the address), LinkLocalAddress (l: the   *)
(* bytes) and others.                                                      *)
(***************************************************************************)
MaxNeigh == 2

LoopbackIp == "127.0.0.1"
Ips == {LoopbackIp, "10.0.0.2", "10.0.0.3"}

\* IpAddr::is_loopback
IsLoopback(ip) == ip = LoopbackIp

\* str::parse::<IpAddr>().ok()
ParseIp(text) ==
    IF text \in Ips THEN [some |-> TRUE, v |-> text]
    ELSE [some |-> FALSE, v |-> ""]

\* the bytes are printed as two hex digits each, joined by ':', and parsed by
\* MacAddr::from_str, which takes six or eight groups
MacLen6 == 6
MacLen8 == 8
MacFromBytes(bytes) ==
    IF Len(bytes) \in {MacLen6, MacLen8} THEN [some |-> TRUE, v |-> bytes]
    ELSE [some |-> FALSE, v |-> <<>>]

NullMac == <<0, 0, 0, 0, 0, 0>>

AttrDestination(ip) == Attr("Destination", ip, 0, <<>>)
AttrLinkLocalAddress(bytes) == Attr("LinkLocalAddress", "", 0, bytes)
AttrOther == Attr("Other", "", 0, <<>>)

\* attributes.iter().find_map(Destination(Inet(ip)) | Destination(Inet6(ip)))
RECURSIVE FirstDestination(_)
FirstDestination(attrs) ==
    IF attrs = <<>> THEN [some |-> FALSE, v |-> ""]
    ELSE IF Head(attrs).t = "Destination"
    THEN [some |-> TRUE, v |-> Head(attrs).s]
    ELSE FirstDestination(Tail(attrs))

\* attributes.iter().find_map(LinkLocalAddress(addr) => from_str(..).ok())
RECURSIVE FirstMac(_)
FirstMac(attrs) ==
    IF attrs = <<>> THEN [some |-> FALSE, v |-> <<>>]
    ELSE IF Head(attrs).t = "LinkLocalAddress"
            /\ MacFromBytes(Head(attrs).l).some
    THEN MacFromBytes(Head(attrs).l)
    ELSE FirstMac(Tail(attrs))

\* the while-let loop over the neighbour stream: the first message whose
\* destination is the wanted address decides, and the loop breaks
RECURSIVE ScanNeighbours(_, _)
ScanNeighbours(neigh, ip) ==
    IF neigh = <<>> THEN Err("RouterClientIdentificationFailed", <<>>)
    ELSE LET route_ip == FirstDestination(Head(neigh).attributes)
             mac == FirstMac(Head(neigh).attributes)
         IN  IF ~route_ip.some \/ route_ip.v # ip
             THEN ScanNeighbours(Tail(neigh), ip)
             ELSE IF mac.some THEN Ok(mac.v)
             ELSE Err("RouterClientIdentificationFailed", <<>>)

NoClient == [ip_address |-> "", mac_address |-> <<>>]
ClientErr ==
    [res |-> Err("RouterClientIdentificationFailed", NoClient),
     queried |-> FALSE]

\* RouterClient::from_request_parts; queried is whether
\* nl_handle.neighbours().get().execute() was issued
RouterClientFromRequestParts(in) ==
    LET real_ip == ParseIp(in.header)
        proxied == IsLoopback(in.socket_ip) /\ in.header # ""
        ip_address == IF proxied THEN real_ip.v ELSE in.socket_ip
        mac_address == ScanNeighbours(in.neigh, ip_address)
    IN  IF ~in.connect \/ ~in.handle THEN ClientErr
        ELSE IF proxied /\ ~real_ip.some THEN ClientErr
        ELSE IF in.fault \/ ~mac_address.ok
        THEN [ClientErr EXCEPT !.queried = TRUE]
        ELSE [res |-> Ok([ip_address |-> ip_address,
                          mac_address |-> mac_address.v]),
              queried |-> TRUE]

MacA == <<2, 0, 0, 0, 0, 1>>
ShortBytes == <<2, 0, 0, 1>>

NeighSet ==
    {[attributes |-> <<AttrDestination(ip), AttrLinkLocalAddress(b)>>] :
        ip \in {LoopbackIp, "10.0.0.2"}, b \in {MacA, NullMac, ShortBytes}}
    \cup {[attributes |-> <<AttrDestination(ip), AttrOther>>] :
             ip \in {LoopbackIp, "10.0.0.2"}}
    \cup {[attributes |-> <<AttrLinkLocalAddress(MacA)>>]}

NoClientOut == [done |-> FALSE, res |-> ClientErr.res, queried |-> FALSE]

ClientInit ==
    /\ c_in \in [connect : BOOLEAN, handle : BOOLEAN,
                 socket_ip : {LoopbackIp, "10.0.0.2"},
                 header : {"", "10.0.0.2", "bogus"},
                 neigh : SeqsUpTo(NeighSet, MaxNeigh),
                 fault : BOOLEAN]
    /\ c_out = NoClientOut

NoClientIn ==
    [connect |-> FALSE, handle |-> FALSE, socket_ip |-> "", header |-> "",
     neigh |-> <<>>, fault |-> FALSE]

\* the extractor runs on the request
ClientResolve ==
    /\ ~c_out.done
    /\ LET out == RouterClientFromRequestParts(c_in)
       IN  c_out' = [done |-> TRUE, res |-> out.res, queried |-> out.queried]
    /\ UNCHANGED <<c_in, not_client_vars>>

(***************************************************************************)
(* SpecEnum: the managers' enumerations over a message stream.  e_in is    *)
(* [fn, stream, fault]: the method called, the messages the kernel streams *)
(* and whether the stream ends in a protocol error (`try_next().await?`).  *)
(***************************************************************************)
MaxMsgs == 3

\* a loop that enters a record without a MAC under the null MAC
RECURSIVE NeighbourMapPlaceholder(_, _)
NeighbourMapPlaceholder(stream, address_map) ==
    IF stream = <<>> THEN address_map
    ELSE LET attrs == Head(stream).attributes
             ip_address == AttrOf(attrs, "Destination")
             lla == AttrOf(attrs, "LinkLocalAddress")
             mac_address == IF lla.some THEN MacFromBytes(lla.a.l)
                            ELSE [some |-> FALSE, v |-> <<>>]
         IN  IF ~ip_address.some
             THEN NeighbourMapPlaceholder(Tail(stream), address_map)
             ELSE NeighbourMapPlaceholder(Tail(stream),
                      MapInsert(address_map, ip_address.a.s,
                                IF mac_address.some THEN mac_address.v
                                ELSE NullMac))

\* the loop of RouteManager::get_neighbor_mac_addresses: of each record the
\* last Destination is the address, the last LinkLocalAddress decides the
\* MAC (None when it does not parse); a record lacking either is skipped
RECURSIVE NeighbourMap(_, _)
NeighbourMap(stream, address_map) ==
    IF stream = <<>> THEN address_map
    ELSE LET attrs == Head(stream).attributes
             ip_address == AttrOf(attrs, "Destination")
             lla == AttrOf(attrs, "LinkLocalAddress")
             mac_address == IF lla.some THEN MacFromBytes(lla.a.l)
                            ELSE [some |-> FALSE, v |-> <<>>]
         IN  IF ~ip_address.some \/ ~mac_address.some
             THEN NeighbourMap(Tail(stream), address_map)
             ELSE NeighbourMap(Tail(stream),
                      MapInsert(address_map, ip_address.a.s, mac_address.v))

\* RouteManager::get_neighbor_mac_addresses
RouteManagerGetNeighborMacAddresses(stream, fault) ==
    IF fault THEN Err("Protocol", <<>>)
    ELSE Ok(NeighbourMap(stream, <<>>))

LinkMsg(index, llt, flags, attrs) ==
    [index |-> index, link_layer_type |-> llt, flags |-> flags,
     attributes |-> attrs]

LinkMsgSet ==
    {LinkMsg(1, LltEther, IffUp + IffOther,
             <<AttrIfName("eth0"), AttrOperState(StateUp)>>),
     LinkMsg(2, LltLoopback, IffUp,
             <<AttrIfName("lo"), AttrOperState(StateUnknown)>>),
     LinkMsg(3, LltIeee80211Radiotap, 0,
             <<AttrOperState(StateDown), AttrIfName("wlan0")>>),
     LinkMsg(4, LltNetrom, IffUp,
             <<AttrIfName("nr0"), AttrOperState(StateUp)>>),
     LinkMsg(5, LltEther, IffOther,
             <<AttrIfName("eth1"), AttrOperState(StateDown)>>),
     LinkMsg(6, LltEther, IffUp + IffOther, <<AttrOperState(StateUp)>>),
     LinkMsg(7, LltEther, IffOther, <<AttrIfName("eth7")>>),
     LinkMsg(8, LltEther, 0, <<>>)}

WifMsgSet ==
    {[attributes |-> <<AttrIfIndex(3), AttrWiphy(0), AttrIfName("wlan0"),
                       AttrIfType(IftStation)>>],
     [attributes |-> <<AttrIfType(IftMonitor), AttrIfName("mon0"),
                       AttrWiphy(1), AttrIfIndex(4)>>],
     [attributes |-> <<AttrWiphy(0), AttrIfName("a"), AttrIfType(IftAp)>>],
     [attributes |-> <<AttrIfIndex(5), AttrIfName("b"), AttrIfType(IftAp)>>],
     [attributes |-> <<AttrIfIndex(6), AttrWiphy(0), AttrIfType(IftAp)>>],
     [attributes |-> <<AttrIfIndex(7), AttrWiphy(0), AttrIfName("c")>>]}

PhyMsgSet ==
    {[attributes |-> <<AttrWiphy(0), AttrWiphyName("phy0")>>],
     [attributes |-> <<AttrWiphy(0),
                       AttrSupportedIftypes(<<IftStation, IftAp>>)>>],
     [attributes |-> <<AttrWiphy(0), AttrWiphyName("radio"),
                       AttrSupportedIftypes(<<IftMonitor>>)>>],
     [attributes |-> <<AttrWiphy(0)>>],
     [attributes |-> <<AttrWiphy(1), AttrWiphyName("phy1")>>],
     [attributes |-> <<AttrWiphyName("phy9"),
                       AttrSupportedIftypes(<<IftStation>>)>>]}

EnumCalls ==
    {[fn |-> "route_get_interfaces", stream |-> st, fault |-> f] :
        st \in SeqsUpTo(LinkMsgSet, MaxMsgs), f \in BOOLEAN}
    \cup {[fn |-> "get_wiphy_interfaces", stream |-> st, fault |-> f] :
             st \in SeqsUpTo(WifMsgSet, MaxMsgs), f \in BOOLEAN}
    \cup {[fn |-> "get_wiphy_devices", stream |-> st, fault |-> f] :
             st \in SeqsUpTo(PhyMsgSet, MaxMsgs), f \in BOOLEAN}
    \cup {[fn |-> "get_neighbor_mac_addresses", stream |-> st, fault |-> f] :
             st \in SeqsUpTo(NeighSet, MaxMsgs), f \in BOOLEAN}

NoEnumIn == [fn |-> "none", stream |-> <<>>, fault |-> FALSE]
NoEnumOut == [done |-> FALSE, res |-> Err("", <<>>)]

EnumInit ==
    /\ e_in \in EnumCalls
    /\ e_out = NoEnumOut

EnumRouteInterfaces ==
    /\ e_in.fn = "route_get_interfaces" /\ ~e_out.done
    /\ e_out' = [done |-> TRUE,
                 res |-> RouteManagerGetInterfaces(e_in.stream, e_in.fault)]
    /\ UNCHANGED <<e_in, not_enum_vars>>

EnumWiphyInterfaces ==
    /\ e_in.fn = "get_wiphy_interfaces" /\ ~e_out.done
    /\ e_out' = [done |-> TRUE,
                 res |-> WiphyManagerGetInterfaces(e_in.stream, e_in.fault)]
    /\ UNCHANGED <<e_in, not_enum_vars>>

EnumWiphyDevices ==
    /\ e_in.fn = "get_wiphy_devices" /\ ~e_out.done
    /\ \E res \in WiphyManagerGetDevices(e_in.stream, e_in.fault) :
          e_out' = [done |-> TRUE, res |-> res]
    /\ UNCHANGED <<e_in, not_enum_vars>>

EnumNeighbours ==
    /\ e_in.fn = "get_neighbor_mac_addresses" /\ ~e_out.done
    /\ e_out' = [done |-> TRUE,
                 res |-> RouteManagerGetNeighborMacAddresses(e_in.stream,
                                                             e_in.fault)]
    /\ UNCHANGED <<e_in, not_enum_vars>>

(***************************************************************************)
(* SpecHttp: the HTTP entry points main.rs serves.  The requests in flight *)
(* are h[r]; each runs the extractors of its handler in the order of the   *)
(* handler's parameters, then the handler's body, one await at a time,     *)
(* while the other requests run theirs.  h[r].log records, in order, the   *)
(* successful session validation and every exchange with a kernel          *)
(* connection made for the request.  The session record is the static of   *)
(* AuthService, which outlives every request.  Times are in seconds.       *)
(***************************************************************************)
MaxHttp == 3
MaxTicks == 2
HttpReqs == {1, 2}

SessionDuration == 900
SessionCooldown == 15

NoSession == [some |-> FALSE, id |-> 0, created_at |-> 0, expires_at |-> 0]

\* a validation that accepts any id while a session is live
ValidateSessionAnyId(session, now, session_id) ==
    IF ~session.some
    THEN [res |-> Err("Unauthenticated", 0), session |-> session]
    ELSE IF now >= session.expires_at
    THEN [res |-> Err("SessionExpired", 0), session |-> NoSession]
    ELSE [res |-> Ok(0), session |-> session]

\* a validation that tests the expiry before it compares the id
ValidateSessionExpiryFirst(session, now, session_id) ==
    IF ~session.some
    THEN [res |-> Err("Unauthenticated", 0), session |-> session]
    ELSE IF now >= session.expires_at
    THEN [res |-> Err("SessionExpired", 0), session |-> NoSession]
    ELSE IF session_id # session.id
    THEN [res |-> Err("Unauthenticated", 0), session |-> session]
    ELSE [res |-> Ok(0), session |-> session]

\* AuthService::validate_session
ValidateSession(session, now, session_id) ==
    IF ~session.some
    THEN [res |-> Err("Unauthenticated", 0), session |-> session]
    ELSE IF session_id # session.id
    THEN [res |-> Err("Unauthenticated", 0), session |-> session]
    ELSE IF now >= session.expires_at
    THEN [res |-> Err("SessionExpired", 0), session |-> NoSession]
    ELSE [res |-> Ok(0), session |-> session]

\* a cooldown that is never in force
IsSessionInCooldownNever(session, now) == FALSE

\* AuthService::is_session_in_cooldown
IsSessionInCooldown(session, now) == now < session.created_at + SessionCooldown

\* AuthService::sign_in; password_ok is whether Argon2 verifies the password,
\* fresh the id Uuid::new_v4 draws
SignIn(session, now, password_ok, fresh) ==
    IF ~password_ok
    THEN [res |-> Err("IncorrectPassword", 0), session |-> session]
    ELSE IF session.some /\ IsSessionInCooldown(session, now)
    THEN [res |-> Err("SessionCooldown", 0), session |-> session]
    ELSE [res |-> Ok(fresh),
          session |-> [some |-> TRUE, id |-> fresh, created_at |-> now,
                       expires_at |-> now + SessionDuration]]

\* AuthService::sign_out
SignOut(session) == [res |-> Ok(0), session |-> NoSession]

\* the Authorization header of a request: absent, a bearer token that is no
\* UUID, or a bearer token that parses to the id
NoToken == [header |-> FALSE, uuid |-> FALSE, id |-> 0]
BadToken == [header |-> TRUE, uuid |-> FALSE, id |-> 0]
Token(id) == [header |-> TRUE, uuid |-> TRUE, id |-> id]

\* UserSession::from_request_parts
UserSessionFromRequestParts(token, session, now) ==
    IF ~token.header
    THEN [res |-> Err("Unauthenticated", 0), session |-> session]
    ELSE IF ~token.uuid
    THEN [res |-> Err("Unauthenticated", 0), session |-> session]
    ELSE ValidateSession(session, now, token.id)

\* the routes of main.rs: /api/login, /api/logout, /api/auth_status and
\* /api/net/interfaces
Endpoints == {"login", "logout", "auth_status", "interfaces"}

\* the handlers src/api holds; those of net/ifstate.rs and net/ifmode.rs
\* have no route
Handlers == Endpoints \cup {"ifstate", "ifmode"}

\* the extensions every request carries: the two Extension layers of the
\* router and the ConnectInfo of into_make_service_with_connect_info
RequestExtensions == {"AuthService", "NetlinkService", "ConnectInfo"}

\* handlers of which /net/interfaces takes no UserSession
ExtractorsOpen(ep) ==
    IF ep = "login" THEN <<"RouterClient", "Json">>
    ELSE IF ep = "logout" THEN <<"RouterClient", "UserSession">>
    ELSE IF ep = "auth_status" THEN <<"UserSession">>
    ELSE IF ep = "interfaces" THEN <<>>
    ELSE <<"UserSession", "Json">>

\* the extractors a handler's signature names, in order (Extension
\* extractors read the request's extensions and are left out)
Extractors(ep) ==
    IF ep = "login" THEN <<"RouterClient", "Json">>
    ELSE IF ep = "logout" THEN <<"RouterClient", "UserSession">>
    ELSE IF ep = "auth_status" THEN <<"UserSession">>
    ELSE IF ep = "interfaces" THEN <<"UserSession">>
    ELSE <<"UserSession", "Json">>

\* impl From<NetlinkInterface> for Interface, over the Vec of the response
InterfacesBody(interfaces) ==
    [i \in 1..Len(interfaces) |->
        [index |-> interfaces[i].index, name |-> interfaces[i].name]]

NoHttp ==
    [pc |-> "idle", ep |-> "", token |-> NoToken, header |-> "",
     body_ok |-> FALSE, password_ok |-> FALSE, i |-> 0,
     q_devs |-> <<>>, q_wifs |-> <<>>, log |-> <<>>,
     resp |-> Err("", 0), interfaces |-> <<>>]

\* the service starts; the session record is empty, or holds the session a
\* sign_in with the correct password stored in it
HttpInit ==
    /\ \E signed_in \in BOOLEAN :
          /\ a_session = IF signed_in
                         THEN SignIn(NoSession, 0, TRUE, 1).session
                         ELSE NoSession
          /\ a_next_id = IF signed_in THEN 2 ELSE 1
    /\ a_now = 0
    /\ h = [r \in HttpReqs |-> NoHttp]
    /\ h_left = MaxHttp
    /\ t_left = MaxTicks
    /\ k_devs = KernelDevs
    /\ k_wifs = <<[index |-> 3, phy_index |-> 0, name |-> "wlan0",
                   iftype |-> IftStation]>>
    /\ k_links = <<[index |-> 1, name |-> "eth0", llt |-> LltEther,
                    up |-> TRUE, lower |-> StateDown],
                   [index |-> 3, name |-> "wlan0", llt |-> LltEther,
                    up |-> TRUE, lower |-> StateUp]>>

\* the extractor or the await a request goes on with once its extractors
\* are through
HttpEnter(ep) == IF ep = "interfaces" THEN "get_wiphy_devices" ELSE "body"

\* a request arrives for one of the routes; its headers and its body are
\* the caller's
HttpStart(r) ==
    /\ h[r].pc = "idle"
    /\ h_left > 0
    /\ \E ep \in Endpoints,
          token \in {NoToken, BadToken} \cup {Token(id) : id \in 1..a_next_id},
          header \in {"", "10.0.0.2", "bogus"},
          body_ok \in BOOLEAN, password_ok \in BOOLEAN :
          /\ ep # "login" => body_ok /\ password_ok
          /\ ep \notin {"login", "logout"} => header = ""
          /\ h' = [h EXCEPT ![r] =
                      [NoHttp EXCEPT
                          !.pc = IF Extractors(ep) = <<>> THEN HttpEnter(ep)
                                 ELSE "extract",
                          !.ep = ep, !.token = token, !.header = header,
                          !.body_ok = body_ok, !.password_ok = password_ok,
                          !.i = 1]]
    /\ h_left' = h_left - 1
    /\ UNCHANGED <<a_session, a_now, a_next_id, t_left, not_http_vars>>

\* the next extractor runs.  RouterClient is handed the extensions of the
\* request, the peer's address (the listener is bound to 127.0.0.1, so the
\* peer is a loopback address) and the X-Real-IP header; UserSession
\* validates the bearer token; Json deserializes the body.
HttpExtract(r) ==
    /\ h[r].pc = "extract"
    /\ \E fault \in BOOLEAN :
          LET x == Extractors(h[r].ep)[h[r].i]
              c == RouterClientFromRequestParts(
                       [connect |-> "ConnectInfo" \in RequestExtensions,
                        handle |-> "Handle" \in RequestExtensions,
                        socket_ip |-> LoopbackIp,
                        header |-> h[r].header,
                        neigh |-> <<[attributes |->
                                        <<AttrDestination("10.0.0.2"),
                                          AttrLinkLocalAddress(MacA)>>]>>,
                        fault |-> fault])
              u == UserSessionFromRequestParts(h[r].token, a_session, a_now)
              ok == IF x = "RouterClient" THEN c.res.ok
                    ELSE IF x = "UserSession" THEN u.res.ok
                    ELSE h[r].body_ok
              err == IF x = "RouterClient" THEN Err(c.res.err, 0)
                     ELSE IF x = "UserSession" THEN u.res
                     ELSE Err("BadRequest", 0)
              log == IF x = "RouterClient" /\ c.queried
                     THEN Append(h[r].log, "neighbours_get")
                     ELSE IF x = "UserSession" /\ u.res.ok
                     THEN Append(h[r].log, "validate_ok")
                     ELSE h[r].log
          IN  /\ a_session' = IF x = "UserSession" THEN u.session
                              ELSE a_session
              /\ h' = [h EXCEPT ![r] =
                          [@ EXCEPT
                              !.log = log,
                              !.i = @ + 1,
                              !.pc = IF ~ok THEN "done"
                                     ELSE IF h[r].i = Len(Extractors(h[r].ep))
                                     THEN HttpEnter(h[r].ep)
                                     ELSE "extract",
                              !.resp = IF ok THEN @ ELSE err]]
    /\ UNCHANGED <<a_now, a_next_id, h_left, t_left, not_http_vars>>

\* the body of login, logout or auth_status: sign_in(password)?, sign_out()?
\* or nothing, and the response
HttpBody(r) ==
    /\ h[r].pc = "body"
    /\ LET in == SignIn(a_session, a_now, h[r].password_ok, a_next_id)
           out == SignOut(a_session)
       IN  /\ a_session' = IF h[r].ep = "login" THEN in.session
                           ELSE IF h[r].ep = "logout" THEN out.session
                           ELSE a_session
           /\ a_next_id' = IF h[r].ep = "login" /\ in.res.ok
                           THEN a_next_id + 1 ELSE a_next_id
           /\ h' = [h EXCEPT ![r] =
                       [@ EXCEPT !.pc = "done",
                                 !.resp = IF h[r].ep = "login" THEN in.res
                                          ELSE IF h[r].ep = "logout"
                                          THEN out.res
                                          ELSE Ok(0)]]
    /\ UNCHANGED <<a_now, h_left, t_left, not_http_vars>>

\* the request after an await of get_interfaces failed:
\* .map_err(|_| Error::UnexpectedError)?
HttpFailed(q, event) ==
    [q EXCEPT !.pc = "done", !.log = Append(@, event),
              !.resp = Err("UnexpectedError", 0)]

\* the body of /net/interfaces, first await of get_interfaces: the radios
HttpInterfacesDevices(r) ==
    /\ h[r].pc = "get_wiphy_devices"
    /\ \E fault \in BOOLEAN :
          \E devs \in WiphyManagerGetDevices(KernelPhyDump(k_devs), fault) :
             h' = [h EXCEPT ![r] =
                      IF ~devs.ok THEN HttpFailed(@, "get_wiphy_devices")
                      ELSE [@ EXCEPT !.pc = "get_wiphy_interfaces",
                                     !.q_devs = devs.v,
                                     !.log = Append(@, "get_wiphy_devices")]]
    /\ UNCHANGED <<a_session, a_now, a_next_id, h_left, t_left, not_http_vars>>

\* second await: the wireless interfaces
HttpInterfacesWifs(r) ==
    /\ h[r].pc = "get_wiphy_interfaces"
    /\ \E fault \in BOOLEAN :
          LET wifs == WiphyManagerGetInterfaces(KernelInterfaceDump(k_wifs),
                                                fault)
          IN  h' = [h EXCEPT ![r] =
                       IF ~wifs.ok THEN HttpFailed(@, "get_wiphy_interfaces")
                       ELSE [@ EXCEPT !.pc = "get_interfaces",
                                      !.q_wifs = wifs.v,
                                      !.log = Append(@, "get_wiphy_interfaces")]]
    /\ UNCHANGED <<a_session, a_now, a_next_id, h_left, t_left, not_http_vars>>

\* third await: the links; the lists are merged and the response is the
\* index and the name of every entry
HttpInterfacesLinks(r) ==
    /\ h[r].pc = "get_interfaces"
    /\ \E fault \in BOOLEAN :
          LET stream == KernelLinkDump(k_links)
              rifs == RouteInterfaces(stream,
                          RouteManagerGetInterfaces(stream, fault))
          IN  \E all \in GetInterfaces(Ok(h[r].q_devs), Ok(h[r].q_wifs),
                                       rifs) :
                 h' = [h EXCEPT ![r] =
                          IF ~all.ok THEN HttpFailed(@, "get_interfaces")
                          ELSE [@ EXCEPT
                                   !.pc = "done",
                                   !.log = Append(@, "get_interfaces"),
                                   !.resp = Ok(0),
                                   !.interfaces = InterfacesBody(all.v)]]
    /\ UNCHANGED <<a_session, a_now, a_next_id, h_left, t_left, not_http_vars>>

\* the response is written
HttpFinish(r) ==
    /\ h[r].pc = "done"
    /\ h' = [h EXCEPT ![r] = NoHttp]
    /\ UNCHANGED <<a_session, a_now, a_next_id, h_left, t_left, not_http_vars>>

\* time passes: the length of a cooldown, or of a session
Tick ==
    /\ t_left > 0
    /\ \E d \in {SessionCooldown, SessionDuration} : a_now' = a_now + d
    /\ t_left' = t_left - 1
    /\ UNCHANGED <<a_session, a_next_id, h, h_left, not_http_vars>>

(***************************************************************************)
(* SpecLife: construction and discarding of the managers.  l_tasks holds   *)
(* the state of every task handed to the runtime, in spawn order: running, *)
(* cancelling (abort was called, the runtime has not yet dropped the       *)
(* future) or cancelled.  l_held[t] is whether the object that spawned     *)
(* task t still exists.                                                    *)
(***************************************************************************)
MaxBuilds == 3

\* tokio::spawn
SpawnTask(tasks) == Append(tasks, "running")

\* JoinHandle::abort
Abort(tasks, t) ==
    [tasks EXCEPT ![t] = IF @ = "running" THEN "cancelling" ELSE @]

NoMgr == [some |-> FALSE, future |-> 0]

\* RouteManager::try_new; conn_ok is whether rtnetlink::new_connection
\* succeeds
RouteManagerTryNew(tasks, conn_ok) ==
    IF ~conn_ok
    THEN [ok |-> FALSE, tasks |-> tasks, mgr |-> NoMgr]
    ELSE [ok |-> TRUE, tasks |-> SpawnTask(tasks),
          mgr |-> [some |-> TRUE, future |-> Len(tasks) + 1]]

\* WiphyManager::try_new; conn_ok is whether wl_nl80211::new_connection
\* succeeds
WiphyManagerTryNew(tasks, conn_ok) ==
    IF ~conn_ok
    THEN [ok |-> FALSE, tasks |-> tasks, mgr |-> NoMgr]
    ELSE [ok |-> TRUE, tasks |-> SpawnTask(tasks),
          mgr |-> [some |-> TRUE, future |-> Len(tasks) + 1]]

\* a RouteManager whose Drop forgets the task
DropRouteManagerLeak(tasks, mgr) == tasks

\* impl Drop for RouteManager
DropRouteManager(tasks, mgr) == Abort(tasks, mgr.future)

\* impl Drop for WiphyManager
DropWiphyManager(tasks, mgr) == Abort(tasks, mgr.future)

\* NetlinkService::try_new: the wireless manager first, then the route
\* manager; when the second fails, `?` returns and the first is dropped
NetlinkServiceTryNew(tasks, wiphy_ok, route_ok) ==
    LET w == WiphyManagerTryNew(tasks, wiphy_ok)
        r == RouteManagerTryNew(w.tasks, route_ok)
    IN  IF ~w.ok
        THEN [ok |-> FALSE, tasks |-> tasks,
              wiphy_mgr |-> NoMgr, route_mgr |-> NoMgr, unwound |-> NoMgr]
        ELSE IF ~r.ok
        THEN [ok |-> FALSE, tasks |-> DropWiphyManager(r.tasks, w.mgr),
              wiphy_mgr |-> NoMgr, route_mgr |-> NoMgr, unwound |-> w.mgr]
        ELSE [ok |-> TRUE, tasks |-> r.tasks,
              wiphy_mgr |-> w.mgr, route_mgr |-> r.mgr, unwound |-> NoMgr]

\* dropping a NetlinkService drops its fields in declaration order
DropNetlinkService(tasks, svc) ==
    DropRouteManager(DropWiphyManager(tasks, svc.wiphy_mgr), svc.route_mgr)

\* the tasks an object spawned
TasksOf(obj) ==
    {m.future : m \in {x \in {obj.wiphy_mgr, obj.route_mgr} : x.some}}

\* l_held after the objects' tasks lose their owner, and after tasks are
\* spawned for a new owner
Release(held, ts) == [t \in DOMAIN held |-> held[t] /\ t \notin ts]
Hold(held, n) == held \o [t \in 1..(n - Len(held)) |-> TRUE]

LifeInit ==
    /\ l_tasks = <<>>
    /\ l_held = <<>>
    /\ l_objs = {}
    /\ l_left = MaxBuilds

LifeRouteTryNew ==
    /\ l_left > 0
    /\ \E conn_ok \in BOOLEAN :
          LET r == RouteManagerTryNew(l_tasks, conn_ok)
          IN  /\ l_tasks' = r.tasks
              /\ l_held' = Hold(l_held, Len(r.tasks))
              /\ l_objs' = IF r.ok
                           THEN l_objs \cup {[kind |-> "RouteManager",
                                              wiphy_mgr |-> NoMgr,
                                              route_mgr |-> r.mgr]}
                           ELSE l_objs
    /\ l_left' = l_left - 1
    /\ UNCHANGED not_life_vars

LifeWiphyTryNew ==
    /\ l_left > 0
    /\ \E conn_ok \in BOOLEAN :
          LET r == WiphyManagerTryNew(l_tasks, conn_ok)
          IN  /\ l_tasks' = r.tasks
              /\ l_held' = Hold(l_held, Len(r.tasks))
              /\ l_objs' = IF r.ok
                           THEN l_objs \cup {[kind |-> "WiphyManager",
                                              wiphy_mgr |-> r.mgr,
                                              route_mgr |-> NoMgr]}
                           ELSE l_objs
    /\ l_left' = l_left - 1
    /\ UNCHANGED not_life_vars

LifeServiceTryNew ==
    /\ l_left > 0
    /\ \E wiphy_ok \in BOOLEAN, route_ok \in BOOLEAN :
          LET r == NetlinkServiceTryNew(l_tasks, wiphy_ok, route_ok)
          IN  /\ l_tasks' = r.tasks
              /\ l_held' = Release(Hold(l_held, Len(r.tasks)),
                                   IF r.unwound.some
                                   THEN {r.unwound.future} ELSE {})
              /\ l_objs' = IF r.ok
                           THEN l_objs \cup {[kind |-> "NetlinkService",
                                              wiphy_mgr |-> r.wiphy_mgr,
                                              route_mgr |-> r.route_mgr]}
                           ELSE l_objs
    /\ l_left' = l_left - 1
    /\ UNCHANGED not_life_vars

\* an object goes out of scope
LifeDrop ==
    /\ \E obj \in l_objs :
          /\ l_tasks' = IF obj.kind = "RouteManager"
                        THEN DropRouteManager(l_tasks, obj.route_mgr)
                        ELSE IF obj.kind = "WiphyManager"
                        THEN DropWiphyManager(l_tasks, obj.wiphy_mgr)
                        ELSE DropNetlinkService(l_tasks, obj)
          /\ l_held' = Release(l_held, TasksOf(obj))
          /\ l_objs' = l_objs \ {obj}
    /\ UNCHANGED <<l_left, not_life_vars>>

\* the runtime drops the future of a task whose abort was requested
TaskCancel ==
    /\ \E t \in DOMAIN l_tasks :
          /\ l_tasks[t] = "cancelling"
          /\ l_tasks' = [l_tasks EXCEPT ![t] = "cancelled"]
    /\ UNCHANGED <<l_held, l_objs, l_left, not_life_vars>>

(***************************************************************************)
(* SpecAuth: AuthService called from several threads.  The session record  *)
(* is a_session, behind one RwLock; `lock` is the thread holding its write *)
(* guard (0: none).  A call runs in steps: sign_in verifies the password   *)
(* before it asks for the lock; the guard is taken; the record is read and *)
(* the call decides; the record is written if the call writes it, the      *)
(* guard is dropped and the call returns.  g is history: the id, creation  *)
(* and expiry of the most recent successful sign_in, whether the record    *)
(* was cleared since, the same of the successful sign_in before it, and    *)
(* the number of calls that wrote the record so far; th[t].call numbers    *)
(* t's call, th[t].with is the calls that were running when it began, and  *)
(* th[t].w_call and th[t].w_read are that number when the call began and   *)
(* when it read the record.                                                *)
(***************************************************************************)
MaxAuthCalls == 3
Threads == {1, 2, 3}

\* a write guard that is handed out whoever holds one
WriteLockFreeShared(holder) == TRUE

\* RwLock::write returns once no other guard exists
WriteLockFree(holder) == holder = 0

\* a sign_in that replaces whatever session it finds
SignInAdmitsAlways(session, now) == TRUE

\* the cooldown test of sign_in on the record read under the guard
SignInAdmits(session, now) ==
    ~(session.some /\ IsSessionInCooldown(session, now))

\* the Session sign_in builds: Uuid::new_v4, Utc::now, now + session_duration
NewSession(now, fresh) ==
    [some |-> TRUE, id |-> fresh, created_at |-> now,
     expires_at |-> now + SessionDuration]

NoAuthOut == [res |-> Err("", 0), session |-> NoSession]

IdleThread ==
    [pc |-> "idle", call |-> 0, op |-> "", id |-> 0, password_ok |-> FALSE,
     none_at_call |-> FALSE, with |-> {}, seen |-> NoSession, at |-> 0,
     w_call |-> 0, w_read |-> 0,
     out |-> NoAuthOut, res |-> Err("", 0)]

NoPrevSignIn == [some |-> FALSE, created |-> 0, cleared |-> FALSE]

NoHistory ==
    [issued |-> 0, created |-> 0, expires |-> 0, cleared |-> FALSE,
     prev |-> NoPrevSignIn, writes |-> 0]

AuthInit ==
    /\ a_session = NoSession
    /\ a_now = 0
    /\ a_next_id = 1
    /\ t_left = MaxTicks
    /\ th = [t \in Threads |-> IdleThread]
    /\ lock = 0
    /\ g = NoHistory
    /\ calls_left = MaxAuthCalls

\* a thread calls validate_session(id), sign_in(password) or sign_out()
AuthCall(t) ==
    /\ th[t].pc = "idle"
    /\ calls_left > 0
    /\ \E op \in {"validate_session", "sign_in", "sign_out"},
          id \in 0..(a_next_id - 1), password_ok \in BOOLEAN :
          /\ op # "validate_session" => id = 0
          /\ op # "sign_in" => password_ok
          /\ th' = [th EXCEPT ![t] =
                       [IdleThread EXCEPT
                           !.pc = IF op = "sign_in" THEN "verify" ELSE "lock",
                           !.call = MaxAuthCalls - calls_left + 1,
                           !.op = op, !.id = id,
                           !.password_ok = password_ok,
                           !.none_at_call = ~a_session.some,
                           !.w_call = g.writes,
                           !.with = {th[u].call : u \in
                                        {v \in Threads \ {t} :
                                            th[v].pc \notin {"idle", "done"}}}]]
    /\ calls_left' = calls_left - 1
    /\ UNCHANGED <<a_session, a_now, a_next_id, t_left, lock, g, not_auth_vars>>

\* sign_in: Argon2 verifies the password, before the lock is asked for
AuthVerify(t) ==
    /\ th[t].pc = "verify"
    /\ th' = [th EXCEPT ![t] =
                 IF th[t].password_ok
                 THEN [@ EXCEPT !.pc = "lock"]
                 ELSE [@ EXCEPT !.pc = "done",
                                !.res = Err("IncorrectPassword", 0)]]
    /\ UNCHANGED <<a_session, a_now, a_next_id, t_left, lock, g, calls_left,
                   not_auth_vars>>

\* Self::global_session().write() returns the guard
AuthLock(t) ==
    /\ th[t].pc = "lock"
    /\ WriteLockFree(lock)
    /\ lock' = t
    /\ th' = [th EXCEPT ![t].pc =
                 IF th[t].op = "sign_out" THEN "write" ELSE "read"]
    /\ UNCHANGED <<a_session, a_now, a_next_id, t_left, g, calls_left,
                   not_auth_vars>>

\* the record is read and the call decides: validate_session compares the
\* id and the expiry, sign_in tests the cooldown and draws the new id
AuthRead(t) ==
    /\ th[t].pc = "read"
    /\ LET out == IF th[t].op = "validate_session"
                  THEN ValidateSession(a_session, a_now, th[t].id)
                  ELSE IF SignInAdmits(a_session, a_now)
                  THEN [res |-> Ok(a_next_id), session |-> a_session]
                  ELSE [res |-> Err("SessionCooldown", 0),
                        session |-> a_session]
       IN  /\ th' = [th EXCEPT ![t] = [@ EXCEPT !.pc = "write",
                                                !.seen = a_session,
                                                !.at = a_now,
                                                !.w_read = g.writes,
                                                !.out = out]]
           /\ a_next_id' = IF th[t].op = "sign_in" /\ out.res.ok
                           THEN a_next_id + 1 ELSE a_next_id
    /\ UNCHANGED <<a_session, a_now, t_left, lock, g, calls_left,
                   not_auth_vars>>

\* the record is written where the call writes it (validate_session clears
\* an expired session, sign_in stores the new one, sign_out clears), the
\* guard is dropped and the call returns
AuthWrite(t) ==
    /\ th[t].pc = "write"
    /\ LET op == th[t].op
           out == th[t].out
           expired == op = "validate_session"
                          /\ out.res.err = "SessionExpired"
           created == op = "sign_in" /\ out.res.ok
           session == IF op = "sign_out" THEN SignOut(a_session).session
                      ELSE IF expired THEN out.session
                      ELSE IF created THEN NewSession(a_now, out.res.v)
                      ELSE a_session
       IN  /\ a_session' = session
           /\ th' = [th EXCEPT ![t] =
                        [@ EXCEPT !.pc = "done",
                                  !.res = IF op = "sign_out"
                                          THEN SignOut(a_session).res
                                          ELSE out.res]]
           /\ g' = IF created
                   THEN [issued |-> session.id, created |-> session.created_at,
                         expires |-> session.expires_at, cleared |-> FALSE,
                         prev |-> [some |-> g.issued # 0,
                                   created |-> g.created,
                                   cleared |-> g.cleared],
                         writes |-> g.writes + 1]
                   ELSE IF op = "sign_out" \/ expired
                   THEN [g EXCEPT !.cleared = TRUE, !.writes = @ + 1]
                   ELSE g
    /\ lock' = IF lock = t THEN 0 ELSE lock
    /\ UNCHANGED <<a_now, a_next_id, t_left, calls_left, not_auth_vars>>

\* the caller takes the result
AuthReturn(t) ==
    /\ th[t].pc = "done"
    /\ th' = [th EXCEPT ![t] = IdleThread]
    /\ UNCHANGED <<a_session, a_now, a_next_id, t_left, lock, g, calls_left,
                   not_auth_vars>>

(***************************************************************************)
(* The specifications.                                                     *)
(***************************************************************************)
MergeIdle ==
    m_devs = <<>> /\ m_wifs = <<>> /\ m_rifs = <<>> /\ m_out = NoCall

ProtoIdle ==
    /\ k_links = <<>> /\ k_wifs = <<>> /\ k_devs = <<>>
    /\ req = [r \in Reqs |-> IdleReq]
    /\ call = NoMgrCall
    /\ ops_left = 0 /\ env_left = 0

ClientIdle == c_in = NoClientIn /\ c_out = [NoClientOut EXCEPT !.done = TRUE]

EnumIdle == e_in = NoEnumIn /\ e_out = [NoEnumOut EXCEPT !.done = TRUE]

HttpIdle ==
    /\ a_session = NoSession /\ a_now = 0 /\ a_next_id = 1
    /\ h = [r \in HttpReqs |-> NoHttp] /\ h_left = 0 /\ t_left = 0

LifeIdle == l_tasks = <<>> /\ l_held = <<>> /\ l_objs = {} /\ l_left = 0

AuthIdle ==
    /\ th = [t \in Threads |-> IdleThread] /\ lock = 0
    /\ g = NoHistory /\ calls_left = 0

Init ==
    ProtoInit /\ ops_left = MaxOps /\ MergeIdle /\ ClientIdle /\ EnumIdle
    /\ HttpIdle /\ LifeIdle /\ AuthIdle

Next ==
    \/ \E r \in Reqs : Start(r)
    \/ \E r \in Reqs : ResolveDevices(r)
    \/ \E r \in Reqs : ResolveInterfaces(r)
    \/ \E r \in Reqs : Resolve(r)
    \/ \E r \in Reqs : MutateState(r)
    \/ \E r \in Reqs : MutateMode(r)
    \/ \E r \in Reqs : ConfirmDevices(r)
    \/ \E r \in Reqs : ConfirmInterfaces(r)
    \/ \E r \in Reqs : Confirm(r)
    \/ \E r \in Reqs : Finish(r)
    \/ EnvFlag
    \/ EnvCarrier
    \/ EnvType
    \/ EnvRemove

Spec == Init /\ [][Next]_vars

InitCall ==
    CallInit /\ MergeIdle /\ ClientIdle /\ EnumIdle /\ HttpIdle /\ LifeIdle
    /\ AuthIdle

NextCall ==
    \/ CallSetLinkOperState
    \/ CallSetWiphyInterfaceMode
    \/ CallCreateWiphyInterface
    \/ CallDeleteWiphyInterface

SpecCall == InitCall /\ [][NextCall]_vars

InitMerge ==
    MergeInit /\ ProtoIdle /\ ClientIdle /\ EnumIdle /\ HttpIdle /\ LifeIdle
    /\ AuthIdle

NextMerge ==
    \/ MergeGetInterfaces
    \/ MergeFindInterfaceByName

SpecMerge == InitMerge /\ [][NextMerge]_vars

InitClient ==
    ClientInit /\ MergeIdle /\ ProtoIdle /\ EnumIdle /\ HttpIdle /\ LifeIdle
    /\ AuthIdle

NextClient == ClientResolve

SpecClient == InitClient /\ [][NextClient]_vars

InitEnum ==
    EnumInit /\ MergeIdle /\ ProtoIdle /\ ClientIdle /\ HttpIdle /\ LifeIdle
    /\ AuthIdle

NextEnum ==
    \/ EnumRouteInterfaces
    \/ EnumWiphyInterfaces
    \/ EnumWiphyDevices
    \/ EnumNeighbours

SpecEnum == InitEnum /\ [][NextEnum]_vars

InitHttp ==
    /\ HttpInit
    /\ req = [r \in Reqs |-> IdleReq] /\ call = NoMgrCall
    /\ ops_left = 0 /\ env_left = 0
    /\ MergeIdle /\ ClientIdle /\ EnumIdle /\ LifeIdle /\ AuthIdle

NextHttp ==
    \/ \E r \in HttpReqs : HttpStart(r)
    \/ \E r \in HttpReqs : HttpExtract(r)
    \/ \E r \in HttpReqs : HttpBody(r)
    \/ \E r \in HttpReqs : HttpInterfacesDevices(r)
    \/ \E r \in HttpReqs : HttpInterfacesWifs(r)
    \/ \E r \in HttpReqs : HttpInterfacesLinks(r)
    \/ \E r \in HttpReqs : HttpFinish(r)
    \/ Tick

SpecHttp == InitHttp /\ [][NextHttp]_vars

InitLife ==
    LifeInit /\ MergeIdle /\ ProtoIdle /\ ClientIdle /\ EnumIdle /\ HttpIdle
    /\ AuthIdle

NextLife ==
    \/ LifeRouteTryNew
    \/ LifeWiphyTryNew
    \/ LifeServiceTryNew
    \/ LifeDrop
    \/ TaskCancel

\* the runtime polls every task that was woken, and abort wakes the task
SpecLife == InitLife /\ [][NextLife]_vars /\ WF_vars(TaskCancel)

InitAuth ==
    /\ AuthInit /\ h = [r \in HttpReqs |-> NoHttp] /\ h_left = 0
    /\ MergeIdle /\ ProtoIdle /\ ClientIdle /\ EnumIdle /\ LifeIdle

NextAuth ==
    \/ \E t \in Threads : AuthCall(t)
    \/ \E t \in Threads : AuthVerify(t)
    \/ \E t \in Threads : AuthLock(t)
    \/ \E t \in Threads : AuthRead(t)
    \/ \E t \in Threads : AuthWrite(t)
    \/ \E t \in Threads : AuthReturn(t)
    \/ Tick

SpecAuth == InitAuth /\ [][NextAuth]_vars

(***************************************************************************)
(* Properties.                                                             *)
(***************************************************************************)
WifNamed(name) == \E i \in 1..Len(m_wifs) : m_wifs[i].name = name
RifNamed(name) == \E i \in 1..Len(m_rifs) : m_rifs[i].name = name

\* the wireless record that decides a name: the last one carrying it
DecidingWif(name) ==
    m_wifs[CHOOSE i \in 1..Len(m_wifs) :
              /\ m_wifs[i].name = name
              /\ \A j \in (i + 1)..Len(m_wifs) : m_wifs[j].name # name]

\* C1: the list get_interfaces returns holds no two entries of the same
\* name, whatever names the two sources repeat or share.
C1_NamesUnique ==
    m_out.fn = "get_interfaces" =>
        \A i, j \in 1..Len(m_out.list) :
            m_out.list[i].name = m_out.list[j].name => i = j

\* a merge of two wireless and two generic records, all of one name
C1_Witness ==
    /\ m_out.fn = "get_interfaces"
    /\ Len(m_wifs) = 2 /\ m_wifs[1].name = m_wifs[2].name
    /\ Len(m_rifs) = 2 /\ m_rifs[1].name = m_rifs[2].name
    /\ m_wifs[1].name = m_rifs[1].name
    /\ Len(m_out.list) = 1

\* C2: an interface the wireless enumeration names is Wireless in the
\* result, with a mode status when its radio was enumerated; and every entry
\* the wireless pass made is in the result with its kind and mode status as
\* that pass left them.
C2_WirelessWins ==
    m_out.fn = "get_interfaces" =>
        /\ \A i \in 1..Len(m_out.list) :
              LET e == m_out.list[i]
              IN  WifNamed(e.name) =>
                      /\ e.kind = KindWireless
                      /\ (\E d \in 1..Len(m_devs) :
                             m_devs[d].phy_index = DecidingWif(e.name).phy_index)
                         => e.mode_status.some
        /\ LET made == WirelessMap(m_devs, m_wifs)
           IN  \A w \in 1..Len(made) :
                   \E i \in 1..Len(m_out.list) :
                       /\ m_out.list[i].name = made[w][2].name
                       /\ m_out.list[i].kind = made[w][2].kind
                       /\ m_out.list[i].mode_status = made[w][2].mode_status

\* a wireless interface with its radio, which the generic source reports as
\* an Ethernet link
C2_Witness ==
    /\ m_out.fn = "get_interfaces"
    /\ \E i \in 1..Len(m_wifs), j \in 1..Len(m_rifs), d \in 1..Len(m_devs) :
          /\ m_wifs[i].name = m_rifs[j].name
          /\ m_rifs[j].kind = KindEthernet
          /\ m_devs[d].phy_index = m_wifs[i].phy_index
    /\ \E i \in 1..Len(m_out.list) :
          m_out.list[i].kind = KindWireless /\ m_out.list[i].mode_status.some

\* C3: set_link_oper_state with the target Unknown or Other(_) returns the
\* invalid-input error, sends nothing and leaves the kernel's links as they
\* were.
C3_InvalidTargetRejected ==
    (call.fn = "set_link_oper_state" /\ call.target.tag \in {"Unknown", "Other"})
        => /\ ~call.res.ok
           /\ call.res.err = "InvalidInput"
           /\ call.sent = 0
           /\ ~call.changed

C3_Witness ==
    /\ call.fn = "set_link_oper_state"
    /\ call.target = OperOther(StateUnknown)
    /\ ~call.res.ok

\* C4: a mode change to OtherWireless(_) fails with an error and sends no
\* request to the kernel.
C4_OtherWirelessRejected ==
    (call.fn = "set_wiphy_interface_mode" /\ call.target.tag = "OtherWireless")
        => ~call.res.ok /\ call.sent = 0

\* C5: for a caller on the loopback address the resolver sends no neighbour
\* query and answers with the null MAC.
C5_LoopbackNullMac ==
    (/\ c_out.done /\ c_in.connect /\ c_in.handle
     /\ IsLoopback(c_in.socket_ip) /\ c_in.header = "")
        => /\ ~c_out.queried
           /\ c_out.res.ok
           /\ c_out.res.v.mac_address = NullMac

\* the state and the mode the kernel held for the name when the confirming
\* query dumped the links and the wireless interfaces, as the API's values;
\* a name the link dump lacks has the state of no link
ConfirmedState(q) ==
    IF q.k_oper = 0 - 1 THEN OperUnknown
    ELSE IF q.k_oper = StateUp THEN OperUp
    ELSE IF q.k_oper = StateDown THEN OperDown
    ELSE OperOther(q.k_oper)

ConfirmedMode(q) ==
    IF q.k_type = IftStation THEN ModeStation
    ELSE IF q.k_type = IftMonitor THEN ModeMonitor
    ELSE IF q.k_type = IftAp THEN ModeAccessPoint
    ELSE ModeOtherWireless(q.k_type)

\* C6: a successful set-link-state or set-mode answers with what the kernel
\* held for the name when the dumps of the confirming query ran, which were
\* made after the one mutation request of the operation was accepted.
C6_AnswerIsConfirmedState ==
    \A r \in Reqs :
        (req[r].pc = "done" /\ req[r].resp.ok) =>
            /\ req[r].calls = 1 /\ req[r].sent = 1
            /\ req[r].kind = "ifstate" => req[r].resp.v = ConfirmedState(req[r])
            /\ req[r].kind = "ifmode" => req[r].resp.v = ConfirmedMode(req[r])

\* a set-mode that answers neither its target nor the mode it resolved
C6_Witness ==
    \E r \in Reqs :
        /\ req[r].pc = "done" /\ req[r].resp.ok
        /\ req[r].kind = "ifmode"
        /\ req[r].resp.v # req[r].target
        /\ req[r].resp.v # req[r].iface.mode_status.active

\* C7: two undisturbed set-link-state(Up) in a row on an interface the
\* kernel knows, with no kernel fault, both succeed and both answer Up.
C7_UpTwice ==
    \A r \in Reqs :
        (/\ req[r].pc = "done"
         /\ req[r].kind = "ifstate" /\ req[r].target = OperUp
         /\ req[r].clean /\ ~req[r].faulted /\ ~req[r].absent
         /\ req[r].prev.valid /\ req[r].prev.name = req[r].name)
            => /\ req[r].prev.resp = Ok(OperUp)
               /\ req[r].resp = Ok(OperUp)

\* C8: an operation on a name the merged snapshot lacks ends with the
\* not-found error, having called no mutator and sent nothing.
C8_AbsentNameNotFound ==
    \A r \in Reqs :
        req[r].absent =>
            /\ req[r].pc = "done"
            /\ req[r].resp = Err("InterfaceNotFound", OperUnknown)
            /\ req[r].calls = 0 /\ req[r].sent = 0

C8_Witness ==
    \E r \in Reqs :
        req[r].absent /\ req[r].pc = "done" /\ req[r].name = "lo"

\* C9: the not-found error is answered only when the first enumeration
\* worked and lacked the name; a failed enumeration is not answered so.
C9_NotFoundOnlyWhenAbsent ==
    \A r \in Reqs :
        (req[r].pc = "done" /\ req[r].resp.err = "InterfaceNotFound")
            => ~req[r].rfault /\ req[r].absent

\* C10: find_interface_by_name on a name neither source reports returns the
\* not-found error; on a reported name it returns the entry of the merge
\* with that name.
C10_FindByName ==
    m_out.fn = "find_interface_by_name" =>
        IF ~WifNamed(m_out.name) /\ ~RifNamed(m_out.name)
        THEN ~m_out.found.ok /\ m_out.found.err = "NotFound"
        ELSE /\ m_out.found.ok
             /\ m_out.found.v.name = m_out.name
             /\ \A all \in MergeInterfaces(m_devs, m_wifs, m_rifs) :
                    \E i \in 1..Len(all) : all[i] = m_out.found.v

\* a lookup of a name neither of two non-empty sources reports
C10_Witness ==
    /\ m_out.fn = "find_interface_by_name"
    /\ m_wifs # <<>> /\ m_rifs # <<>>
    /\ ~WifNamed(m_out.name) /\ ~RifNamed(m_out.name)
    /\ ~m_out.found.ok

\* C11: when the call of the manager's mutator (RouteManager's for
\* set-link-state, WiphyManager's for set-mode) returns an error, the
\* operation ends with the unexpected-error condition, after one call of
\* the mutator and exactly one mutation request, and without the confirming
\* lookup.
C11_MutationFailureNoRetry ==
    \A r \in Reqs :
        req[r].mfail =>
            /\ req[r].pc = "done"
            /\ req[r].resp = Err("UnexpectedError", OperUnknown)
            /\ req[r].calls = 1
            /\ req[r].sent = 1
            /\ req[r].queries = 1

\* a set-mode whose request the kernel refused, in a slot that before it
\* completed a set-link-state whose request the kernel refused
C11_Witness ==
    \E r \in Reqs :
        /\ req[r].mfail /\ req[r].kind = "ifmode"
        /\ req[r].pc = "done" /\ req[r].sent = 1 /\ ~req[r].absent
        /\ req[r].sfailed

\* whether a message carries an attribute of type t, and the payload that
\* counts when it carries several: the one read last
Carries(msg, t) == \E i \in 1..Len(msg.attributes) : msg.attributes[i].t = t

Carried(msg, t) ==
    msg.attributes[CHOOSE i \in 1..Len(msg.attributes) :
        /\ msg.attributes[i].t = t
        /\ \A j \in (i + 1)..Len(msg.attributes) : msg.attributes[j].t # t]

CompleteLink(msg) == Carries(msg, "IfName") /\ Carries(msg, "OperState")

CompleteWif(msg) ==
    /\ Carries(msg, "IfIndex") /\ Carries(msg, "Wiphy")
    /\ Carries(msg, "IfName") /\ Carries(msg, "IfType")

CompletePhy(msg) == Carries(msg, "Wiphy")

\* C12: an enumeration whose stream does not fail returns Ok whatever
\* partial records the stream holds.  The two interface lists are the
\* complete records of the stream, one entry each, in stream order; the
\* device list has one device for each phy index a complete record names.
C12_PartialRecordsSkipped ==
    (e_out.done /\ ~e_in.fault) =>
        /\ e_out.res.ok
        /\ e_in.fn = "route_get_interfaces" =>
              LET full == SelectSeq(e_in.stream, CompleteLink)
              IN  /\ Len(e_out.res.v) = Len(full)
                  /\ \A i \in 1..Len(full) :
                        e_out.res.v[i] =
                            [index |-> full[i].index,
                             name |-> Carried(full[i], "IfName").s,
                             kind |-> KindOfLinkLayerType(
                                          full[i].link_layer_type),
                             oper_state |-> OperStateFromState(
                                          Carried(full[i], "OperState").n)]
        /\ e_in.fn = "get_wiphy_interfaces" =>
              LET full == SelectSeq(e_in.stream, CompleteWif)
              IN  /\ Len(e_out.res.v) = Len(full)
                  /\ \A i \in 1..Len(full) :
                        e_out.res.v[i] =
                            [index |-> Carried(full[i], "IfIndex").n,
                             phy_index |-> Carried(full[i], "Wiphy").n,
                             name |-> Carried(full[i], "IfName").s,
                             iftype |-> Carried(full[i], "IfType").n]
        /\ e_in.fn = "get_wiphy_devices" =>
              LET full == SelectSeq(e_in.stream, CompletePhy)
                  phys == {Carried(full[i], "Wiphy").n : i \in 1..Len(full)}
              IN  /\ {e_out.res.v[i].phy_index : i \in 1..Len(e_out.res.v)}
                         = phys
                  /\ Len(e_out.res.v) = Cardinality(phys)

\* a link enumeration with a complete record between two partial ones
C12_Witness ==
    /\ e_out.done /\ ~e_in.fault
    /\ e_in.fn = "route_get_interfaces"
    /\ Len(e_in.stream) = 3
    /\ ~CompleteLink(e_in.stream[1])
    /\ CompleteLink(e_in.stream[2])
    /\ ~CompleteLink(e_in.stream[3])
    /\ e_out.res.ok /\ Len(e_out.res.v) = 1

\* the API's mode for a kernel interface-type code
ModeOfCode(c) ==
    IF c = IftStation THEN ModeStation
    ELSE IF c = IftMonitor THEN ModeMonitor
    ELSE IF c = IftAp THEN ModeAccessPoint
    ELSE ModeOtherWireless(c)

\* the generic-link record and the radio that decide a name: the last ones
LastRif(name) ==
    m_rifs[CHOOSE i \in 1..Len(m_rifs) :
              /\ m_rifs[i].name = name
              /\ \A j \in (i + 1)..Len(m_rifs) : m_rifs[j].name # name]

FirstRif(name) ==
    m_rifs[CHOOSE i \in 1..Len(m_rifs) :
              /\ m_rifs[i].name = name
              /\ \A j \in 1..(i - 1) : m_rifs[j].name # name]

DevKnown(phy) == \E d \in 1..Len(m_devs) : m_devs[d].phy_index = phy

LastDev(phy) ==
    m_devs[CHOOSE d \in 1..Len(m_devs) :
              /\ m_devs[d].phy_index = phy
              /\ \A j \in (d + 1)..Len(m_devs) : m_devs[j].phy_index # phy]

OutEntries(name) ==
    {i \in 1..Len(m_out.list) : m_out.list[i].name = name}

\* C13: a name both sources report has exactly one merged entry: Wireless,
\* with the link state of the generic-link record (the state its flags
\* give, copied with the flags), the active mode of the
\* wireless record's iftype and, when the record's radio was enumerated,
\* that radio's supported modes, mapped one by one in their order.
C13_BothSourcesMerged ==
    m_out.fn = "get_interfaces" =>
        \A name \in Names :
            (WifNamed(name) /\ RifNamed(name)) =>
                /\ Cardinality(OutEntries(name)) = 1
                /\ \A i \in OutEntries(name) :
                      LET e == m_out.list[i]
                          w == DecidingWif(name)
                      IN  /\ e.kind = KindWireless
                          /\ e.link_flags = LastRif(name).link_flags
                          /\ State(e) = State(LastRif(name))
                          /\ e.mode_status.some
                          /\ e.mode_status.active = ModeOfCode(w.iftype)
                          /\ DevKnown(w.phy_index) =>
                                LET sup == LastDev(w.phy_index).supported_iftypes
                                IN  e.mode_status.supported =
                                        [k \in 1..Len(sup) |-> ModeOfCode(sup[k])]

\* wlan0 in station mode on a radio supporting Station, Monitor and Ap, its
\* link reported up
C13_Witness ==
    /\ m_out.fn = "get_interfaces"
    /\ Len(m_wifs) = 1 /\ Len(m_rifs) = 1 /\ Len(m_devs) = 1
    /\ m_wifs[1].name = "wlan0" /\ m_rifs[1].name = "wlan0"
    /\ State(m_rifs[1]) = LinkStateUp
    /\ m_rifs[1].kind = KindEthernet
    /\ m_wifs[1].phy_index = m_devs[1].phy_index
    /\ m_out.list =
           <<[index |-> 3, name |-> "wlan0", kind |-> KindWireless,
              link_flags |-> IffUp + IffOther,
              mode_status |-> SomeModeStatus(ModeStation,
                  <<ModeStation, ModeMonitor, ModeAccessPoint>>)]>>

\* C14: a name only the generic-link source reports has exactly one merged
\* entry, with the index and kind of its record, the state of its record
\* and no mode status (of several records of one name the first gives index
\* and kind, the last the state); with no wireless interface the merge has
\* one entry for each distinct generic-link name.
C14_GenericOnlyMerged ==
    m_out.fn = "get_interfaces" =>
        /\ \A name \in Names :
              (RifNamed(name) /\ ~WifNamed(name)) =>
                  /\ Cardinality(OutEntries(name)) = 1
                  /\ \A i \in OutEntries(name) :
                        m_out.list[i] =
                            [index |-> FirstRif(name).index,
                             name |-> name,
                             kind |-> FirstRif(name).kind,
                             link_flags |-> LastRif(name).link_flags,
                             mode_status |-> NoModeStatus]
        /\ m_wifs = <<>> =>
              Len(m_out.list) =
                  Cardinality({m_rifs[i].name : i \in 1..Len(m_rifs)})

\* eth0, an Ethernet link that is Up, and no wireless interface
C14_Witness ==
    /\ m_out.fn = "get_interfaces"
    /\ m_wifs = <<>>
    /\ Len(m_rifs) = 1
    /\ m_out.list =
           <<[index |-> 1, name |-> "eth0", kind |-> KindEthernet,
              link_flags |-> IffUp + IffOther,
              mode_status |-> NoModeStatus]>>

\* a neighbour record with a destination and a link-layer address that
\* parses as a MAC (six or eight bytes)
CompleteNeigh(msg) ==
    /\ Carries(msg, "Destination")
    /\ Carries(msg, "LinkLocalAddress")
    /\ Len(Carried(msg, "LinkLocalAddress").l) \in {MacLen6, MacLen8}

NeighFor(stream, ip) ==
    {i \in 1..Len(stream) :
        CompleteNeigh(stream[i]) /\ Carried(stream[i], "Destination").s = ip}

Max(S) == CHOOSE x \in S : \A y \in S : y <= x

\* C15: the map get_neighbor_mac_addresses returns has an entry for an
\* address exactly when some record of the stream carries that address and
\* a MAC, and the entry is the MAC of the last such record; records lacking
\* either add nothing.
C15_NeighbourMapComplete ==
    (e_out.done /\ ~e_in.fault /\ e_in.fn = "get_neighbor_mac_addresses") =>
        /\ e_out.res.ok
        /\ \A i, j \in 1..Len(e_out.res.v) :
              e_out.res.v[i][1] = e_out.res.v[j][1] => i = j
        /\ \A i \in 1..Len(e_out.res.v) :
              NeighFor(e_in.stream, e_out.res.v[i][1]) # {}
        /\ \A ip \in Ips :
              NeighFor(e_in.stream, ip) # {} =>
                  \E i \in 1..Len(e_out.res.v) :
                      /\ e_out.res.v[i][1] = ip
                      /\ e_out.res.v[i][2] =
                             Carried(e_in.stream[Max(NeighFor(e_in.stream, ip))],
                                     "LinkLocalAddress").l

\* two records with a MAC for one address, then one without for the same
\* address: the second record's MAC is the entry
C15_Witness ==
    /\ e_out.done /\ ~e_in.fault /\ e_in.fn = "get_neighbor_mac_addresses"
    /\ Len(e_in.stream) = 3
    /\ NeighFor(e_in.stream, "10.0.0.2") = {1, 2}
    /\ Carries(e_in.stream[3], "Destination")
    /\ Carried(e_in.stream[3], "Destination").s = "10.0.0.2"
    /\ Carried(e_in.stream[1], "LinkLocalAddress").l
           # Carried(e_in.stream[2], "LinkLocalAddress").l
    /\ e_out.res.v =
           <<<<"10.0.0.2", Carried(e_in.stream[2], "LinkLocalAddress").l>>>>

KernelEvents ==
    {"neighbours_get", "get_wiphy_devices", "get_wiphy_interfaces",
     "get_interfaces"}

\* C16: every exchange with a kernel connection made for a request comes
\* after the successful validation of that request's session; the handlers
\* that have no route, which make the link-state and the mode change, name
\* the session validation as their first extractor.
C16_ValidateBeforeKernel ==
    /\ \A r \in HttpReqs :
          \A i \in 1..Len(h[r].log) :
              h[r].log[i] \in KernelEvents =>
                  \E j \in 1..(i - 1) : h[r].log[j] = "validate_ok"
    /\ \A ep \in Handlers \ Endpoints : Head(Extractors(ep)) = "UserSession"

\* /net/interfaces was answered after its validation and its three dumps,
\* in that order, while a login was refused at the caller's identification
\* with no exchange made
C16_Witness ==
    \E r, u \in HttpReqs :
        /\ h[r].pc = "done" /\ h[r].ep = "interfaces" /\ h[r].resp.ok
        /\ h[r].log = <<"validate_ok", "get_wiphy_devices",
                        "get_wiphy_interfaces", "get_interfaces">>
        /\ Len(h[r].interfaces) = 2
        /\ h[u].pc = "done" /\ h[u].ep = "login"
        /\ h[u].resp = Err("RouterClientIdentificationFailed", 0)
        /\ h[u].log = <<>>

\* C17: a driver task whose manager was discarded is never left running: its
\* abort has been requested as soon as the owner is gone, and the runtime
\* then cancels it; this covers the wireless manager dropped when
\* NetlinkService::try_new fails at the route manager.
C17_DroppedTasksAborted ==
    \A t \in 1..(2 * MaxBuilds) :
        /\ [](t \in DOMAIN l_tasks /\ ~l_held[t] => l_tasks[t] # "running")
        /\ (t \in DOMAIN l_tasks /\ ~l_held[t])
               ~> (t \in DOMAIN l_tasks /\ l_tasks[t] = "cancelled")

\* a service and a lone route manager were dropped, a failed
\* NetlinkService::try_new unwound its wireless manager, and all their tasks
\* are cancelled
C17_Witness ==
    /\ Len(l_tasks) = 4
    /\ l_objs = {}
    /\ l_left = 0
    /\ \A t \in DOMAIN l_tasks : ~l_held[t] /\ l_tasks[t] = "cancelled"

\* the MAC the map of get_neighbor_mac_addresses holds for the address
MappedMac(stream, ip) ==
    LET map == NeighbourMap(stream, <<>>)
    IN  IF MapHas(map, ip) THEN [some |-> TRUE, v |-> MapGet(map, ip)]
        ELSE [some |-> FALSE, v |-> <<>>]

\* C18: for a caller on a non-loopback address the resolver answers with the
\* MAC that the map of get_neighbor_mac_addresses holds for the address over
\* the same neighbour stream, and fails when the map has no entry for it.
C18_ResolverAgreesWithMap ==
    (/\ c_out.done /\ c_in.connect /\ c_in.handle /\ ~c_in.fault
     /\ ~IsLoopback(c_in.socket_ip))
        => LET m == MappedMac(c_in.neigh, c_in.socket_ip)
           IN  /\ c_out.res.ok = m.some
               /\ m.some => c_out.res.v.mac_address = m.v

\* C19: a set-link-state or set-mode that no other writer of the kernel
\* state interleaved with, and that met no kernel failure, answers on
\* success with the target it requested.
C19_UndisturbedAnswersTarget ==
    \A r \in Reqs :
        (/\ req[r].pc = "done" /\ req[r].resp.ok
         /\ req[r].clean /\ ~req[r].faulted)
            => req[r].resp.v = req[r].target

\* the messages of the stream that name the phy index and carry the attribute
PhyMsgsWith(stream, phy, t) ==
    {i \in 1..Len(stream) :
        /\ Carries(stream[i], "Wiphy")
        /\ Carried(stream[i], "Wiphy").n = phy
        /\ Carries(stream[i], t)}

\* C20: get_wiphy_devices returns one device for each phy index the stream
\* names; its name is the one of the last message for that phy index that
\* carried a name (empty when none did), and its supported modes are those
\* of the last message for that phy index that carried them (none when none
\* did), whatever later messages for the phy index carry besides.
C20_DevicesMergedByField ==
    (e_out.done /\ ~e_in.fault /\ e_in.fn = "get_wiphy_devices") =>
        /\ e_out.res.ok
        /\ \A i, j \in 1..Len(e_out.res.v) :
              e_out.res.v[i].phy_index = e_out.res.v[j].phy_index => i = j
        /\ {e_out.res.v[i].phy_index : i \in 1..Len(e_out.res.v)} =
               {Carried(e_in.stream[i], "Wiphy").n :
                    i \in {k \in 1..Len(e_in.stream) :
                              Carries(e_in.stream[k], "Wiphy")}}
        /\ \A i \in 1..Len(e_out.res.v) :
              LET dev == e_out.res.v[i]
                  names == PhyMsgsWith(e_in.stream, dev.phy_index, "WiphyName")
                  modes == PhyMsgsWith(e_in.stream, dev.phy_index,
                                       "SupportedIftypes")
              IN  /\ dev.phy_name =
                         IF names = {} THEN ""
                         ELSE Carried(e_in.stream[Max(names)], "WiphyName").s
                  /\ dev.supported_iftypes =
                         IF modes = {} THEN <<>>
                         ELSE Carried(e_in.stream[Max(modes)],
                                      "SupportedIftypes").l

\* modes, then a name, then a bare message, all for phy 0: the device keeps
\* the modes of the first message and the name of the second
C20_Witness ==
    /\ e_out.done /\ ~e_in.fault /\ e_in.fn = "get_wiphy_devices"
    /\ Len(e_in.stream) = 3
    /\ PhyMsgsWith(e_in.stream, 0, "SupportedIftypes") = {1}
    /\ PhyMsgsWith(e_in.stream, 0, "WiphyName") = {2}
    /\ Carries(e_in.stream[3], "Wiphy")
    /\ Carried(e_in.stream[3], "Wiphy").n = 0
    /\ e_out.res.v =
           <<[phy_index |-> 0, phy_name |-> "phy0",
              supported_iftypes |-> <<IftStation, IftAp>>]>>

\* C21: a wireless interface whose phy index names no enumerated radio is
\* still in the merged list, once, with kind Wireless and with no mode
\* status.
C21_UnknownRadioOmitsModeStatus ==
    m_out.fn = "get_interfaces" =>
        \A name \in Names :
            (WifNamed(name) /\ ~DevKnown(DecidingWif(name).phy_index)) =>
                /\ Cardinality(OutEntries(name)) = 1
                /\ \A i \in OutEntries(name) :
                      /\ m_out.list[i].kind = KindWireless
                      /\ ~m_out.list[i].mode_status.some

\* two calls of which one began while the other was running
Concurrent(t, u) == th[u].call \in th[t].with \/ th[t].call \in th[u].with

\* while a call is between taking the guard and dropping it no other call
\* is, and the record it writes is still the record it read
UnderOneLock ==
    \A t \in Threads :
        /\ th[t].pc \in {"read", "write"} => lock = t
        /\ (th[t].pc = "write" /\ th[t].op # "sign_out") =>
               a_session = th[t].seen

\* two finished concurrent sign_in calls with the correct password that both
\* began with no session
SignInRace(t, u) ==
    /\ t # u /\ Concurrent(t, u)
    /\ th[t].pc = "done" /\ th[u].pc = "done"
    /\ th[t].op = "sign_in" /\ th[u].op = "sign_in"
    /\ th[t].password_ok /\ th[u].password_ok
    /\ th[t].none_at_call /\ th[u].none_at_call

OneWins(t, u) ==
    \/ th[t].res.ok /\ th[u].res = Err("SessionCooldown", 0)
    \/ th[u].res.ok /\ th[t].res = Err("SessionCooldown", 0)

\* C22: each session operation reads, checks and writes the record under
\* one exclusive lock, and of two concurrent sign_in calls with the correct
\* password that began with no session exactly one returns a session id and
\* the other returns SessionCooldown.
C22_ConcurrentSignInOneWins ==
    /\ UnderOneLock
    /\ \A t, u \in Threads : SignInRace(t, u) => OneWins(t, u)

\* from the moment the earlier of the two calls began until the later of
\* them read the record, the only call that wrote the record is the one of
\* the two that read it first
OnlyWriters(t, u) ==
    LET began == IF th[t].w_call < th[u].w_call THEN th[t].w_call
                 ELSE th[u].w_call
    IN  \/ th[t].w_read = began /\ th[u].w_read = began + 1
        \/ th[u].w_read = began /\ th[t].w_read = began + 1

\* C22, amended: the same, for two such calls that read the record less than
\* the cooldown apart while no third call writes the record (a sign_out or
\* an expiry that clears it, a sign_in that stores a session) between the
\* start of the earlier and the read of the later.
C22_ConcurrentSignInWithinCooldown ==
    /\ UnderOneLock
    /\ \A t, u \in Threads :
          (/\ SignInRace(t, u)
           /\ OnlyWriters(t, u)
           /\ th[t].at - th[u].at < SessionCooldown
           /\ th[u].at - th[t].at < SessionCooldown)
              => OneWins(t, u)

\* thread 2 called sign_in while thread 1's sign_in was running and thread
\* 3's sign_out was waiting for the lock; thread 1 got the session, thread 2
\* the cooldown, and the sign_out cleared the record after both had read it
C22_Witness ==
    /\ SignInRace(1, 2) /\ OnlyWriters(1, 2)
    /\ th[1].call \in th[2].with
    /\ th[1].at = th[2].at
    /\ th[1].res.ok /\ g.issued = th[1].res.v
    /\ th[2].res = Err("SessionCooldown", 0)
    /\ th[3].pc = "done" /\ th[3].op = "sign_out"
    /\ th[3].call \in th[2].with
    /\ g.writes = 2 /\ ~a_session.some

\* a validate_session call that has read the record and decided
Validated(t) == th[t].op = "validate_session" /\ th[t].pc = "write"

\* C23: validate_session(id) answers Ok exactly when a sign_in succeeded,
\* neither a sign_out nor an expiry cleared the record since the most recent
\* successful one, id is the id that one issued, and the time is before its
\* expiry; the record, when present, is the session of the most recent
\* successful sign_in, so no earlier id is valid.
C23_ValidIffCurrentSession ==
    /\ a_session.some =>
           /\ g.issued # 0 /\ ~g.cleared
           /\ a_session.id = g.issued
           /\ a_session.expires_at = g.expires
    /\ \A t \in Threads :
          Validated(t) =>
              (th[t].out.res.ok <=>
                   /\ g.issued # 0 /\ ~g.cleared
                   /\ th[t].id = g.issued
                   /\ th[t].at < g.expires)

\* two sign_in calls succeeded, and a validate of the first one's id, before
\* its expiry, is refused
C23_Witness ==
    \E t \in Threads :
        /\ Validated(t)
        /\ g.issued = 2 /\ ~g.cleared /\ g.prev.some /\ ~g.prev.cleared
        /\ th[t].id = 1
        /\ th[t].at < g.prev.created + SessionDuration
        /\ th[t].out.res = Err("Unauthenticated", 0)

\* the validate_session call of thread t returns in this step
ValidateReturns(t) ==
    /\ th[t].op = "validate_session"
    /\ th[t].pc = "write" /\ th'[t].pc = "done"

\* the call read a session of its id at or after that session's expiry
FoundExpired(t) ==
    /\ th[t].seen.some
    /\ th[t].id = th[t].seen.id
    /\ th[t].at >= th[t].seen.expires_at

\* C24: validate_session changes the record only when the id it was given
\* is the stored session's and the time is at or past the expiry: it then
\* clears the record and answers SessionExpired.  With another id it answers
\* Unauthenticated and leaves the record as it is, expired or not.  Once the
\* record was cleared, every validate answers Unauthenticated until a
\* sign_in succeeds.
C24_ValidateClearsOnlyExpired ==
    /\ [](\A t \in Threads :
             (Validated(t) /\ g.cleared) =>
                 th[t].out.res = Err("Unauthenticated", 0))
    /\ [][\A t \in Threads :
             ValidateReturns(t) =>
                 /\ (a_session' # a_session) <=> FoundExpired(t)
                 /\ FoundExpired(t) =>
                        /\ a_session' = NoSession
                        /\ th'[t].res = Err("SessionExpired", 0)
                 /\ (th[t].seen.some /\ th[t].id # th[t].seen.id) =>
                        /\ a_session' = a_session
                        /\ th'[t].res = Err("Unauthenticated", 0)]_vars

\* one validate found the session expired and cleared it; a second validate
\* of the same id, after that, is told Unauthenticated
C24_Witness ==
    \E t, u \in Threads :
        /\ th[u].pc = "done" /\ th[u].op = "validate_session"
        /\ th[u].res = Err("SessionExpired", 0)
        /\ Validated(t) /\ th[t].id = th[u].id
        /\ th[u].call \notin th[t].with
        /\ g.cleared /\ g.issued = th[t].id
        /\ ~a_session.some
        /\ th[t].out.res = Err("Unauthenticated", 0)

\* the sign_in call of thread t returns in this step
SignInReturns(t) ==
    /\ th[t].op = "sign_in"
    /\ th[t].pc \in {"verify", "write"} /\ th'[t].pc = "done"

\* C25: a sign_in with a wrong password answers IncorrectPassword from the
\* password check, before the lock is taken and the record read, whatever
\* the record holds; a sign_in with the correct password that reads a
\* session still in its cooldown answers SessionCooldown; a sign_in that
\* fails leaves the record as it was, still the session of the id issued
\* last.
C25_FailedSignInKeepsSession ==
    [][\A t \in Threads :
          SignInReturns(t) =>
              /\ ~th[t].password_ok =>
                     /\ th[t].pc = "verify"
                     /\ th'[t].res = Err("IncorrectPassword", 0)
                     /\ lock' = lock
              /\ (/\ th[t].password_ok /\ th[t].seen.some
                  /\ th[t].at < th[t].seen.created_at + SessionCooldown) =>
                     th'[t].res = Err("SessionCooldown", 0)
              /\ ~th'[t].res.ok =>
                     /\ a_session' = a_session
                     /\ g' = g
                     /\ th[t].password_ok =>
                            /\ a_session.some /\ a_session = th[t].seen
                            /\ a_session.id = g.issued /\ ~g.cleared]_vars

\* a session in its cooldown; one sign_in with a wrong password was told
\* IncorrectPassword, one with the correct password SessionCooldown, and the
\* session is the one issued before both
C25_Witness ==
    \E t, u \in Threads :
        /\ th[t].pc = "done" /\ th[t].op = "sign_in" /\ ~th[t].password_ok
        /\ th[t].res = Err("IncorrectPassword", 0)
        /\ ~th[t].none_at_call
        /\ th[u].pc = "done" /\ th[u].op = "sign_in" /\ th[u].password_ok
        /\ th[u].res = Err("SessionCooldown", 0)
        /\ a_session.some /\ a_session.id = 1 /\ g.issued = 1
        /\ a_now < a_session.created_at + SessionCooldown

\* a sign_in call with the correct password that has read the record and
\* decided
SignInDecided(t) == th[t].op = "sign_in" /\ th[t].pc = "write"

\* C26: the sessions of two successive successful sign_in calls were created
\* at least the cooldown apart unless the record was cleared between them; a
\* sign_in that finds a session younger than the cooldown does not succeed,
\* and one that finds no record, as after a sign_out, succeeds.
C26_CooldownBetweenSignIns ==
    /\ (g.prev.some /\ g.created - g.prev.created < SessionCooldown)
           => g.prev.cleared
    /\ \A t \in Threads :
          SignInDecided(t) =>
              /\ (/\ th[t].seen.some
                  /\ th[t].at < th[t].seen.created_at + SessionCooldown)
                     => ~th[t].out.res.ok
              /\ ~th[t].seen.some => th[t].out.res.ok

\* sign_in, sign_out and sign_in again, all within the cooldown: the second
\* sign_in succeeded at once
C26_Witness ==
    /\ g.prev.some /\ g.prev.cleared
    /\ g.created - g.prev.created < SessionCooldown
    /\ ~g.cleared
    /\ a_session.some /\ a_session.id = g.issued /\ g.issued = 2
    /\ a_session.created_at = g.created

====
